---- MODULE Spec2Model ----
(***************************************************************************)
(* Hybrid retrieval engine of RAG-Tutor-Erica:                             *)
(*   src/src/retrieval/graph_retriever.py   (GraphRetriever)               *)
(*   src/src/retrieval/hybrid_retriever.py  (HybridRetriever)              *)
(*   src/src/retrieval/concept_embeddings.py (ConceptEmbedder.search)      *)
(* and the crawler of its ingestion stage:                                 *)
(*   src/src/ingestion/crawler.py            (Crawler)                     *)
(*                                                                         *)
(* The knowledge graph and the vector index are read-only collaborators.   *)
(* A public operation of the retriever is one action; the records a graph  *)
(* query returns come in an order the gateway chooses wherever the query   *)
(* carries no ORDER BY (and among ties of an ORDER BY).                    *)
(***************************************************************************)
EXTENDS Integers, Sequences, FiniteSets, TLC

VARIABLES
    graph,      \* the Neo4j property graph (nodes and typed relationships)
    index,      \* what the vector index ranks for the query, best first
    call,       \* the public operation invoked and its arguments
    ret,        \* what the operation returned
    locals,     \* locals of the operation when it returned
    prev,       \* what the previous invocation with the same arguments returned
    queries,    \* number of session.run calls issued on the graph gateway
    pc,         \* where each concurrent retrieve call stands in its pipeline
    session,    \* the state of the graph session of each concurrent call
    crawler,    \* the Crawler of the ingestion stage and the site it crawls
    collection  \* the Chroma collection the index belongs to

vars == <<graph, index, call, ret, locals, prev, queries, pc, session, crawler, collection>>

(***************************************************************************)
(* Bounds of the model.                                                    *)
(***************************************************************************)
MaxTitles == 3        \* longest concept list handed to get_topological_order
MaxOrderEdges == 3    \* most PREREQ_OF relationships in a graph being ordered
MaxPrereqEdges == 2   \* most PREREQ_OF relationships in a graph being expanded
MaxMerged == 3        \* longest list handed to _deduplicate_concepts on its own
MaxHits == 2          \* most entries the vector index ranks for a query

(***************************************************************************)
(* Defaults of the keyword arguments (graph_retriever.py lines 121-124).   *)
(***************************************************************************)
DefaultPrereqDepth == 2
DefaultRelatedDepth == 1
DefaultMaxConcepts == 15
DefaultMaxExamples == 2
\* top_k_semantic of retrieve_with_explicit_concepts (hybrid_retriever.py line 158).
DefaultExplicitTopK == 3
\* min_semantic_score of retrieve, 0.4, in hundred-thousandths
\* (hybrid_retriever.py line 76).
DefaultMinScore == 40000

(***************************************************************************)
(* Universe of titles.  Every title of Concepts is a Concept node of the   *)
(* graph; Absent is a title no Concept node carries.                       *)
(***************************************************************************)
Concepts == {"A", "B", "C"}
Absent == "Z"
Titles == Concepts \cup {Absent}

NULL == "<null>"
NoResult == [kind |-> "none"]
NoCall == [op |-> "none"]

\* The threads that call retrieve on one shared HybridRetriever.
Calls == {1, 2}
Idle == [c \in Calls |-> "idle"]
NoSession == [c \in Calls |-> "none"]

\* No Crawler has been constructed.
NoCrawler == [pc |-> "none"]

\* The Chroma collection of the concepts: whether it exists, and the id the
\* server gave it (a collection created anew gets the next id).
Created(id) == [exists |-> TRUE, id |-> id]

Deleted(id) == [exists |-> FALSE, id |-> id]

(***************************************************************************)
(* Helpers on sequences and sets.                                          *)
(***************************************************************************)
Range(s) == {s[i] : i \in DOMAIN s}

Contains(s, x) == \E i \in DOMAIN s : s[i] = x

Count(s, x) == Cardinality({i \in DOMAIN s : s[i] = x})

IndexOf(s, x) == CHOOSE i \in DOMAIN s : s[i] = x /\ \A j \in DOMAIN s : s[j] = x => i <= j

Min(S) == CHOOSE m \in S : \A x \in S : m <= x

Max(S) == CHOOSE m \in S : \A x \in S : m >= x

RECURSIVE SeqsUpTo(_, _)
SeqsUpTo(S, n) ==
    IF n = 0 THEN {<<>>}
    ELSE LET shorter == SeqsUpTo(S, n - 1)
         IN shorter \cup {Append(s, x) : s \in {t \in shorter : Len(t) = n - 1}, x \in S}

RECURSIVE SubsetsUpTo(_, _)
SubsetsUpTo(S, n) ==
    IF n = 0 THEN {{}}
    ELSE LET smaller == SubsetsUpTo(S, n - 1)
         IN smaller \cup {s \cup {x} : s \in smaller, x \in S}

\* Every order in which a result set can be returned when nothing orders it.
RECURSIVE Orderings(_)
Orderings(S) ==
    IF S = {} THEN {<<>>}
    ELSE UNION {{<<x>> \o rest : rest \in Orderings(S \ {x})} : x \in S}

(***************************************************************************)
(* GraphRetriever.get_topological_order                                    *)
(***************************************************************************)
\* The records of the PREREQ_OF query: relationships with both ends in titles.
InternalEdges(g, titles) ==
    {e \in g.prereqOf : e[1] \in Range(titles) /\ e[2] \in Range(titles)}

\* Mutant of InDegree: the relationship is counted at its prerequisite end.
InDegreeAtPrereq(titles, edges) ==
    [t \in Range(titles) |-> Cardinality({i \in DOMAIN edges : edges[i][1] = t})]

\* in_degree after the two loops of lines 375-380.
InDegree(titles, edges) ==
    [t \in Range(titles) |-> Cardinality({i \in DOMAIN edges : edges[i][2] = t})]

\* graph[node]: the dependents of node, in the order the edges were returned.
RECURSIVE Successors(_, _)
Successors(edges, node) ==
    IF edges = <<>> THEN <<>>
    ELSE IF Head(edges)[1] = node
         THEN <<Head(edges)[2]>> \o Successors(Tail(edges), node)
         ELSE Successors(Tail(edges), node)

\* The inner for loop of lines 390-393 over the neighbours still to visit.
RECURSIVE Relax(_, _, _)
Relax(nbrs, indeg, queue) ==
    IF nbrs = <<>> THEN [indeg |-> indeg, queue |-> queue]
    ELSE LET n == Head(nbrs)
             d == indeg[n] - 1
         IN Relax(Tail(nbrs),
                  [indeg EXCEPT ![n] = d],
                  IF d = 0 THEN Append(queue, n) ELSE queue)

\* Mutant of KahnLoop: queue.pop() for queue.popleft().
RECURSIVE KahnLoopLastIn(_, _, _, _)
KahnLoopLastIn(edges, indeg, queue, result) ==
    IF queue = <<>> THEN result
    ELSE LET node == queue[Len(queue)]
             r == Relax(Successors(edges, node), indeg, SubSeq(queue, 1, Len(queue) - 1))
         IN KahnLoopLastIn(edges, r.indeg, r.queue, Append(result, node))

\* The while loop of lines 386-393.
RECURSIVE KahnLoop(_, _, _, _)
KahnLoop(edges, indeg, queue, result) ==
    IF queue = <<>> THEN result
    ELSE LET node == Head(queue)
             r == Relax(Successors(edges, node), indeg, Tail(queue))
         IN KahnLoop(edges, r.indeg, r.queue, Append(result, node))

\* What Kahn's loop placed: lines 372-393.
KahnPlaced(titles, edges) ==
    LET indeg == InDegree(titles, edges)
    IN KahnLoop(edges, indeg, SelectSeq(titles, LAMBDA t : indeg[t] = 0), <<>>)

\* Mutant of AppendRemaining: the fallback loop without its `not in result` test.
AppendAllTitles(titles, result) == result \o titles

\* The fallback loop of lines 396-398.
RECURSIVE AppendRemaining(_, _)
AppendRemaining(titles, result) ==
    IF titles = <<>> THEN result
    ELSE AppendRemaining(Tail(titles),
                         IF Contains(result, Head(titles)) THEN result
                         ELSE Append(result, Head(titles)))

\* get_topological_order on the titles of the concepts, given the edge records.
TopologicalOrder(titles, edges) ==
    AppendRemaining(titles, KahnPlaced(titles, edges))

(***************************************************************************)
(* The graph.  Concept titles are primary keys and relationships are       *)
(* MERGEd, so a relation is a set: PREREQ_OF of pairs <<prereq, dependent>>*)
(* and the peer relations of triples <<from, type, to>>.                   *)
(***************************************************************************)
PeerTypes == {"IS_A", "PART_OF", "SIBLING", "CONTRASTS_WITH"}

\* Properties of the Concept nodes; C carries neither definition nor difficulty.
ConceptProps ==
    [t \in Concepts |->
        IF t = "C" THEN [definition |-> NULL, difficulty |-> NULL]
        ELSE [definition |-> "definition of " \o t, difficulty |-> "beginner"]]

Graph(prereqOf, peer) ==
    [nodes |-> ConceptProps, prereqOf |-> prereqOf, peer |-> peer,
     explains |-> {}, resourceType |-> <<>>, exemplifies |-> {}]

(***************************************************************************)
(* GraphRetriever: the queries of expand_seeds                             *)
(***************************************************************************)
\* Python's `value or default`.
OrDefault(v, d) == IF v = NULL \/ v = "" THEN d ELSE v

RetrievedConcept(g, title, depth, relation, seed) ==
    [title |-> title,
     definition |-> OrDefault(g.nodes[title].definition, ""),
     difficulty |-> OrDefault(g.nodes[title].difficulty, "unknown"),
     depth |-> depth,
     relation_to_seed |-> relation,
     seed_concept |-> seed]

\* Mutant of GetSeedConcepts: a title without a Concept node still yields a
\* record, filled with the defaults (an OPTIONAL MATCH).
GetSeedConceptsOptionalMatch(g, titles) ==
    {[k \in DOMAIN o |->
        IF titles[o[k]] \in DOMAIN g.nodes
        THEN RetrievedConcept(g, titles[o[k]], 0, "seed", titles[o[k]])
        ELSE [title |-> titles[o[k]], definition |-> "", difficulty |-> "unknown",
              depth |-> 0, relation_to_seed |-> "seed", seed_concept |-> titles[o[k]]]] :
        o \in Orderings(DOMAIN titles)}

\* _get_seed_concepts: one record per position of titles that matches a Concept.
GetSeedConcepts(g, titles) ==
    {[k \in DOMAIN o |-> RetrievedConcept(g, titles[o[k]], 0, "seed", titles[o[k]])] :
        o \in Orderings({i \in DOMAIN titles : titles[i] \in DOMAIN g.nodes})}

\* Paths of exactly n PREREQ_OF relationships ending at seed; a path never
\* uses a relationship twice (it may revisit a node).
RECURSIVE PrereqPathsOfLength(_, _, _)
PrereqPathsOfLength(g, seed, n) ==
    IF n = 1 THEN {<<e>> : e \in {x \in g.prereqOf : x[2] = seed}}
    ELSE UNION {
            {<<e>> \o p : e \in {x \in g.prereqOf : x[2] = p[1][1] /\ ~Contains(p, x)}}
            : p \in PrereqPathsOfLength(g, seed, n - 1)}

\* Mutant of PrereqPaths: the pattern reaches one hop beyond depth.
PrereqPathsOneHopFurther(g, seed, depth) ==
    UNION {PrereqPathsOfLength(g, seed, n) : n \in 1..(depth + 1)}

\* (prereq)-[:PREREQ_OF*1..depth]->(seed)
PrereqPaths(g, seed, depth) ==
    UNION {PrereqPathsOfLength(g, seed, n) : n \in 1..depth}

\* The seed titles that MATCH a Concept node.
MatchedSeeds(g, seed_titles) == Range(seed_titles) \cap DOMAIN g.nodes

\* Mutant of PrerequisiteRows: max(dist) for min(dist).
PrerequisiteRowsLongest(g, seed_titles, depth) ==
    UNION {
        LET paths == PrereqPaths(g, s, depth)
        IN {RetrievedConcept(g, p,
                Max({Len(q) : q \in {x \in paths : x[1][1] = p}}),
                "prerequisite", s) : p \in {q[1][1] : q \in paths}}
        : s \in MatchedSeeds(g, seed_titles)}

\* The grouped rows of the _get_prerequisites query: one per (prereq, seedTitle)
\* with min(dist).
PrerequisiteRows(g, seed_titles, depth) ==
    UNION {
        LET paths == PrereqPaths(g, s, depth)
        IN {RetrievedConcept(g, p,
                Min({Len(q) : q \in {x \in paths : x[1][1] = p}}),
                "prerequisite", s) : p \in {q[1][1] : q \in paths}}
        : s \in MatchedSeeds(g, seed_titles)}

\* Every order of a row set that ORDER BY depth allows.
RECURSIVE OrderingsByDepth(_)
OrderingsByDepth(S) ==
    IF S = {} THEN {<<>>}
    ELSE LET m == Min({x.depth : x \in S})
         IN UNION {{<<x>> \o rest : rest \in OrderingsByDepth(S \ {x})} :
                      x \in {y \in S : y.depth = m}}

\* Mutant of GetPrerequisites: the query without its ORDER BY depth.
GetPrerequisitesUnordered(g, seed_titles, depth) ==
    Orderings(PrerequisiteRows(g, seed_titles, depth))

\* _get_prerequisites
GetPrerequisites(g, seed_titles, depth) ==
    OrderingsByDepth(PrerequisiteRows(g, seed_titles, depth))

\* The other end of a peer relationship traversed from node `from`.
OtherEnd(e, from) == IF e[1] = from THEN e[3] ELSE e[1]

\* Undirected paths of exactly n peer relationships starting at seed:
\* [first: type of the first relationship, end: last node, used: relationships].
RECURSIVE PeerPathsOfLength(_, _, _)
PeerPathsOfLength(g, seed, n) ==
    IF n = 1
    THEN {[first |-> e[2], end |-> OtherEnd(e, seed), used |-> {e}] :
             e \in {x \in g.peer : x[1] = seed \/ x[3] = seed}}
    ELSE UNION {
            {[first |-> p.first, end |-> OtherEnd(e, p.end), used |-> p.used \cup {e}] :
                e \in {x \in g.peer \ p.used : x[1] = p.end \/ x[3] = p.end}}
            : p \in PeerPathsOfLength(g, seed, n - 1)}

\* Mutant of RelatedRows: the depth of a related concept is its hop count.
RelatedRowsAtHopDepth(g, seed_titles, depth) ==
    UNION {
        {RetrievedConcept(g, p.end, Cardinality(p.used), p.first, s) :
            p \in {x \in UNION {PeerPathsOfLength(g, s, n) : n \in 1..depth} : x.end # s}}
        : s \in MatchedSeeds(g, seed_titles)}

\* The DISTINCT rows of the _get_related_concepts query.
RelatedRows(g, seed_titles, depth) ==
    UNION {
        {RetrievedConcept(g, p.end, 1, p.first, s) :
            p \in {x \in UNION {PeerPathsOfLength(g, s, n) : n \in 1..depth} : x.end # s}}
        : s \in MatchedSeeds(g, seed_titles)}

\* str.lower() on the relationship type names.
Lower(type) ==
    CASE type = "IS_A" -> "is_a"
      [] type = "PART_OF" -> "part_of"
      [] type = "SIBLING" -> "sibling"
      [] type = "CONTRASTS_WITH" -> "contrasts_with"
      [] OTHER -> type

\* _get_related_concepts
GetRelatedConcepts(g, seed_titles, depth) ==
    {[k \in DOMAIN o |-> [o[k] EXCEPT !.relation_to_seed = Lower(@)]] :
        o \in Orderings(RelatedRows(g, seed_titles, depth))}

(***************************************************************************)
(* GraphRetriever._deduplicate_concepts                                    *)
(***************************************************************************)
\* Mutant of SeenValues: `<=` for `<`, so the last of equally deep entries wins.
RECURSIVE SeenValuesLastWins(_, _)
SeenValuesLastWins(concepts, seen) ==
    IF concepts = <<>> THEN seen
    ELSE LET c == Head(concepts)
             at == {i \in DOMAIN seen : seen[i].title = c.title}
         IN SeenValuesLastWins(Tail(concepts),
                IF at = {} THEN Append(seen, c)
                ELSE LET i == CHOOSE i \in at : TRUE
                     IN IF c.depth <= seen[i].depth THEN [seen EXCEPT ![i] = c] ELSE seen)

\* The dict `seen` as the sequence of its values in insertion order (lines 258-261).
RECURSIVE SeenValues(_, _)
SeenValues(concepts, seen) ==
    IF concepts = <<>> THEN seen
    ELSE LET c == Head(concepts)
             at == {i \in DOMAIN seen : seen[i].title = c.title}
         IN SeenValues(Tail(concepts),
                IF at = {} THEN Append(seen, c)
                ELSE LET i == CHOOSE i \in at : TRUE
                     IN IF c.depth < seen[i].depth THEN [seen EXCEPT ![i] = c] ELSE seen)

\* Insert c after the entries whose depth is not greater (keeps sorted() stable).
RECURSIVE InsertByDepth(_, _)
InsertByDepth(sorted, c) ==
    IF sorted = <<>> THEN <<c>>
    ELSE IF c.depth < Head(sorted).depth THEN <<c>> \o sorted
         ELSE <<Head(sorted)>> \o InsertByDepth(Tail(sorted), c)

\* Mutant of SortedByDepth: the values are left in insertion order.
InsertionOrder(values) == values

\* sorted(values, key=depth), line 264.
RECURSIVE SortedByDepth(_)
SortedByDepth(values) ==
    IF values = <<>> THEN <<>>
    ELSE InsertByDepth(SortedByDepth(SubSeq(values, 1, Len(values) - 1)),
                       values[Len(values)])

\* Mutant of Prefix: the slice keeps the last n entries.
Suffix(s, n) == SubSeq(s, IF n < Len(s) THEN Len(s) - n + 1 ELSE 1, Len(s))

\* sorted_concepts[:max_concepts] for max_concepts >= 0, line 265.
Prefix(s, n) == SubSeq(s, 1, IF n < Len(s) THEN n ELSE Len(s))

DeduplicateConcepts(concepts, max_concepts) ==
    Prefix(SortedByDepth(SeenValues(concepts, <<>>)), max_concepts)

(***************************************************************************)
(* GraphRetriever._get_prereq_chains, _get_resources, _get_examples        *)
(***************************************************************************)
\* Mutant of PathTitles: the titles listed from the seed back to the prerequisite.
PathTitlesFromSeed(p) ==
    [i \in 1..(Len(p) + 1) |-> IF i = Len(p) + 1 THEN p[1][1] ELSE p[Len(p) + 1 - i][2]]

\* [n IN nodes(path) | n.title]
PathTitles(p) == <<p[1][1]>> \o [i \in DOMAIN p |-> p[i][2]]

\* Mutant of ChainsOfSeed: LIMIT 1 without the ORDER BY length(path) DESC.
ChainsOfSeedAnyLength(g, seed, depth) ==
    LET paths == PrereqPaths(g, seed, depth)
    IN IF paths = {} THEN {<<seed>>} ELSE {PathTitles(p) : p \in paths}

\* The chain of one seed: a longest path (ORDER BY length DESC LIMIT 1), or
\* [seed] when the query returns no record.
ChainsOfSeed(g, seed, depth) ==
    LET paths == PrereqPaths(g, seed, depth)
    IN IF paths = {} THEN {<<seed>>}
       ELSE {PathTitles(p) : p \in {q \in paths : Len(q) = Max({Len(x) : x \in paths})}}

\* Mutant of GetPrereqChains: a seed whose query returns no record gets no chain.
RECURSIVE GetPrereqChainsOfRecords(_, _, _)
GetPrereqChainsOfRecords(g, seed_titles, depth) ==
    IF seed_titles = <<>> THEN {<<>>}
    ELSE LET last == seed_titles[Len(seed_titles)]
             before == GetPrereqChainsOfRecords(g, SubSeq(seed_titles, 1, Len(seed_titles) - 1), depth)
         IN IF PrereqPaths(g, last, depth) = {} THEN before
            ELSE {Append(chains, c) : chains \in before, c \in ChainsOfSeed(g, last, depth)}

\* _get_prereq_chains: one chain per seed title, in the order of seed_titles.
RECURSIVE GetPrereqChains(_, _, _)
GetPrereqChains(g, seed_titles, depth) ==
    IF seed_titles = <<>> THEN {<<>>}
    ELSE {Append(chains, c) :
             chains \in GetPrereqChains(g, SubSeq(seed_titles, 1, Len(seed_titles) - 1), depth),
             c \in ChainsOfSeed(g, seed_titles[Len(seed_titles)], depth)}

\* Mutant of ResourceRows: collect() over every concept the resource explains,
\* listed or not.
ResourceRowsAllExplained(g, concept_titles) ==
    UNION {
        {[url |-> u, resource_type |-> g.resourceType[u], concepts |-> cs] :
            cs \in Orderings({c \in DOMAIN g.nodes : <<u, c>> \in g.explains})}
        : u \in {e[1] : e \in {x \in g.explains : x[2] \in Range(concept_titles)}}}

\* The rows of the _get_resources query: grouped by (url, type), with the
\* DISTINCT titles of the listed concepts the resource EXPLAINS.
ResourceRows(g, concept_titles) ==
    UNION {
        {[url |-> u, resource_type |-> g.resourceType[u], concepts |-> cs] :
            cs \in Orderings({c \in Range(concept_titles) : <<u, c>> \in g.explains})}
        : u \in {e[1] : e \in {x \in g.explains : x[2] \in Range(concept_titles)}}}

\* The loop of lines 307-320 over the records.
RECURSIVE ResourcesFromRecords(_, _)
ResourcesFromRecords(records, resources) ==
    IF records = <<>> THEN resources
    ELSE LET r == Head(records)
         IN ResourcesFromRecords(Tail(records),
                IF \E i \in DOMAIN resources : resources[i].url = r.url THEN resources
                ELSE Append(resources,
                        [url |-> r.url,
                         resource_type |-> OrDefault(r.resource_type, "unknown"),
                         title |-> r.url,
                         concepts_explained |-> r.concepts,
                         page_numbers |-> NULL,
                         timecodes |-> NULL]))

\* One row per url: the row sets the query can return.
ResourceRowSets(g, concept_titles) ==
    LET rows == ResourceRows(g, concept_titles)
        urls == {r.url : r \in rows}
    IN {S \in SUBSET rows :
           /\ {r.url : r \in S} = urls
           /\ \A r1, r2 \in S : r1.url = r2.url => r1 = r2}

\* _get_resources
GetResources(g, concept_titles) ==
    {ResourcesFromRecords(o, <<>>) :
        o \in UNION {Orderings(S) : S \in ResourceRowSets(g, concept_titles)}}

\* Every order of the examples that ORDER BY e.example_type allows.
RECURSIVE OrderingsByType(_, _)
OrderingsByType(S, types) ==
    IF types = <<>> THEN {<<>>}
    ELSE {a \o b : a \in Orderings({e \in S : e.example_type = Head(types)}),
                   b \in OrderingsByType(S, Tail(types))}

\* The types an Example carries, in the order of ORDER BY: the five types of
\* the extraction and the "unknown" the import writes for a missing one, as
\* strings by code point, and null (no property) last.
ExampleTypeOrder ==
    <<"case_study", "code", "diagram", "math", "unknown", "walkthrough", NULL>>

\* Mutant of ExamplesOfConcept: collect(e)[0..$max] without the ORDER BY.
ExamplesOfConceptUnordered(g, concept, max_per_concept) ==
    {[k \in DOMAIN p |->
         [text |-> p[k].text,
          example_type |-> OrDefault(p[k].example_type, "unknown"),
          concept |-> concept,
          source_url |-> OrDefault(p[k].source_url, "")]] :
        p \in {Prefix(o, max_per_concept) :
                 o \in Orderings({e \in g.exemplifies : e.concept = concept})}}

\* collect(e)[0..$max] of one concept, as example records.
ExamplesOfConcept(g, concept, max_per_concept) ==
    {[k \in DOMAIN p |->
         [text |-> p[k].text,
          example_type |-> OrDefault(p[k].example_type, "unknown"),
          concept |-> concept,
          source_url |-> OrDefault(p[k].source_url, "")]] :
        p \in {Prefix(o, max_per_concept) :
                 o \in OrderingsByType({e \in g.exemplifies : e.concept = concept},
                                       ExampleTypeOrder)}}

RECURSIVE ExamplesInGroupOrder(_, _, _)
ExamplesInGroupOrder(g, groups, max_per_concept) ==
    IF groups = <<>> THEN {<<>>}
    ELSE {a \o b : a \in ExamplesOfConcept(g, Head(groups), max_per_concept),
                   b \in ExamplesInGroupOrder(g, Tail(groups), max_per_concept)}

\* _get_examples: the groups (one per concept with examples) come in any order.
GetExamples(g, concept_titles, max_per_concept) ==
    UNION {ExamplesInGroupOrder(g, groups, max_per_concept) :
        groups \in Orderings({c \in Range(concept_titles) :
                                \E e \in g.exemplifies : e.concept = c})}

(***************************************************************************)
(* GraphRetriever.expand_seeds                                             *)
(***************************************************************************)
TitlesOf(concepts) == [i \in DOMAIN concepts |-> concepts[i].title]

\* Every value the locals of expand_seeds can have when it returns:
\* merged is `concepts` after line 149, sorted_concepts the local of line 264.
ExpandSeedsRuns(g, seed_titles, prereq_depth, related_depth, max_concepts, max_examples) ==
    UNION {
        LET merged == seeds \o prereqs \o related
            sorted_concepts == SortedByDepth(SeenValues(merged, <<>>))
            concepts == DeduplicateConcepts(merged, max_concepts)
        IN {[merged |-> merged,
             sorted_concepts |-> sorted_concepts,
             subgraph |-> [seed_concepts |-> seed_titles,
                           concepts |-> concepts,
                           resources |-> resources,
                           examples |-> examples,
                           prereq_chain |-> prereq_chains]] :
               prereq_chains \in GetPrereqChains(g, seed_titles, prereq_depth),
               resources \in GetResources(g, TitlesOf(concepts)),
               examples \in GetExamples(g, TitlesOf(concepts), max_examples)}
        : seeds \in GetSeedConcepts(g, seed_titles),
          prereqs \in GetPrerequisites(g, seed_titles, prereq_depth),
          related \in GetRelatedConcepts(g, seed_titles, related_depth)}

\* session.run calls of one expand_seeds: lines 176, 200, 229, 274 (per seed), 296, 328.
ExpandSeedsQueries(seed_titles) == 5 + Len(seed_titles)

(***************************************************************************)
(* Specification SpecOrder: get_topological_order called on a concept list *)
(***************************************************************************)
InitOrder ==
    /\ graph \in {Graph(p, {}) : p \in SubsetsUpTo(Concepts \X Concepts, MaxOrderEdges)}
    /\ index = <<>>
    /\ call = NoCall
    /\ ret = NoResult
    /\ locals = NoResult
    /\ prev = NoResult
    /\ queries = 0
    /\ pc = Idle
    /\ session = NoSession
    /\ crawler = NoCrawler
    /\ collection = Created(1)

GetTopologicalOrder ==
    /\ call.op = "none"
    /\ \E titles \in SeqsUpTo(Concepts, MaxTitles) :
         \E edges \in Orderings(InternalEdges(graph, titles)) :
            /\ call' = [op |-> "get_topological_order", titles |-> titles]
            /\ locals' = [edges |-> edges, placed |-> KahnPlaced(titles, edges)]
            /\ ret' = TopologicalOrder(titles, edges)
            /\ queries' = queries + 1
    /\ UNCHANGED <<collection, crawler, graph, index, prev, pc, session>>

NextOrder == GetTopologicalOrder

SpecOrder == InitOrder /\ [][NextOrder]_vars

(***************************************************************************)
(* Specification SpecOrderRepeated: get_topological_order called on lists  *)
(* of up to four concepts, some of which repeat a title, over graphs with  *)
(* a cycle between two dependents of one concept.                          *)
(***************************************************************************)
\* A PREREQ_OF B, A PREREQ_OF C, and the cycle between B and C.
RepeatedOrderEdges == {<<"A", "B">>, <<"A", "C">>, <<"B", "C">>, <<"C", "B">>}

\* Lists that repeat the title A, and lists of distinct titles.
RepeatedTitleLists ==
    {<<"A", "A", "B", "C">>, <<"A", "B", "A", "C">>, <<"B", "A", "C", "A">>,
     <<"C", "C", "A">>, <<"A", "B", "C">>, <<"C", "B", "A">>}

InitOrderRepeated ==
    /\ graph \in {Graph(p, {}) : p \in SUBSET RepeatedOrderEdges}
    /\ index = <<>>
    /\ call = NoCall
    /\ ret = NoResult
    /\ locals = NoResult
    /\ prev = NoResult
    /\ queries = 0
    /\ pc = Idle
    /\ session = NoSession
    /\ crawler = NoCrawler
    /\ collection = Created(1)

\* get_topological_order on one of the lists.
GetTopologicalOrderOfList ==
    /\ call.op = "none"
    /\ \E titles \in RepeatedTitleLists :
         \E edges \in Orderings(InternalEdges(graph, titles)) :
            /\ call' = [op |-> "get_topological_order", titles |-> titles]
            /\ locals' = [edges |-> edges, placed |-> KahnPlaced(titles, edges)]
            /\ ret' = TopologicalOrder(titles, edges)
            /\ queries' = queries + 1
    /\ UNCHANGED <<collection, crawler, graph, index, prev, pc, session>>

NextOrderRepeated == GetTopologicalOrderOfList

SpecOrderRepeated == InitOrderRepeated /\ [][NextOrderRepeated]_vars

(***************************************************************************)
(* Claims about get_topological_order                                      *)
(***************************************************************************)
Ordered == call.op = "get_topological_order"

Distinct(s) == \A i, j \in DOMAIN s : s[i] = s[j] => i = j

\* a reaches b over one or more edges of E
RECURSIVE ReachesWithin(_, _, _, _)
ReachesWithin(E, a, b, n) ==
    IF n = 0 THEN FALSE
    ELSE \/ <<a, b>> \in E
         \/ \E e \in E : e[1] = a /\ ReachesWithin(E, e[2], b, n - 1)

Acyclic(E) == \A e \in E : ~ReachesWithin(E, e[1], e[1], Cardinality(E))

\* C1 (as claimed): for every input list, repeated titles included, the
\* output of get_topological_order has every title exactly as often as the input.
C1_PermutationOfInput ==
    Ordered => \A t \in Titles : Count(ret, t) = Count(call.titles, t)

\* C2: when the titles are distinct and the internal PREREQ_OF edges are
\* acyclic, every internal edge a->b has a before b in the output.
C2_EdgesRespected ==
    (Ordered /\ Distinct(call.titles) /\ Acyclic(InternalEdges(graph, call.titles)))
        => \A e \in InternalEdges(graph, call.titles) :
              /\ Contains(ret, e[1]) /\ Contains(ret, e[2])
              /\ IndexOf(ret, e[1]) < IndexOf(ret, e[2])

\* A chain of two edges whose input order is the reverse of the edge order.
C2_Witness ==
    /\ Ordered /\ Distinct(call.titles)
    /\ Acyclic(InternalEdges(graph, call.titles))
    /\ call.titles = <<"C", "B", "A">>
    /\ InternalEdges(graph, call.titles) = {<<"A", "B">>, <<"B", "C">>}
    /\ ret = <<"A", "B", "C">>

\* C12: when the internal PREREQ_OF edges hold a cycle or a self-loop,
\* get_topological_order returns; its output is what Kahn's loop placed,
\* followed by every title the loop did not place, once each, in the order of
\* their first occurrence in the input.
C12_UnplacedAppendedInInputOrder ==
    (Ordered /\ ~Acyclic(InternalEdges(graph, call.titles))) =>
        LET placed == locals.placed
            rest == SubSeq(ret, Len(placed) + 1, Len(ret))
        IN /\ Len(ret) >= Len(placed)
           /\ SubSeq(ret, 1, Len(placed)) = placed
           /\ Range(rest) = Range(call.titles) \ Range(placed)
           /\ Distinct(rest)
           /\ \A i, j \in DOMAIN rest :
                 i < j => IndexOf(call.titles, rest[i]) < IndexOf(call.titles, rest[j])

\* The cycle A->B->A with a free title between its members in the input:
\* the free title is placed, then B and A follow in input order.
C12_Witness ==
    /\ Ordered
    /\ call.titles = <<"B", "C", "A">>
    /\ InternalEdges(graph, call.titles) = {<<"A", "B">>, <<"B", "A">>}
    /\ locals.placed = <<"C">>
    /\ ret = <<"C", "B", "A">>

(***************************************************************************)
(* Specification SpecExpand: expand_seeds called on a graph, and called    *)
(* again with the same arguments on the unchanged graph.                   *)
(***************************************************************************)
\* Peer relationships between different concepts; the query traverses them in
\* either direction, so each pair is enumerated in one orientation.
PeerEdges == {<<e[1], t, e[2]>> : e \in {<<"A", "B">>, <<"B", "C">>, <<"C", "A">>}, t \in PeerTypes}

\* The graphs expanded: up to MaxPrereqEdges PREREQ_OF relationships (self-loops
\* and cycles included) and no or one peer relationship.
ExpandGraphs ==
    {Graph(p, r) : p \in SubsetsUpTo(Concepts \X Concepts, MaxPrereqEdges),
                   r \in {{}} \cup {{e} : e \in PeerEdges}}

\* The seed lists: empty, one title, or two titles (equal or not, present or not).
SeedLists == {<<>>} \cup {<<a>> : a \in Titles} \cup {<<a, b>> : a, b \in Titles}

InitExpand ==
    /\ graph \in ExpandGraphs
    /\ index = <<>>
    /\ call = NoCall
    /\ ret = NoResult
    /\ locals = NoResult
    /\ prev = NoResult
    /\ queries = 0
    /\ pc = Idle
    /\ session = NoSession
    /\ crawler = NoCrawler
    /\ collection = Created(1)

ExpandSeeds ==
    /\ call.op = "none"
    /\ \E seed_titles \in SeedLists,
          prereq_depth \in 1..DefaultPrereqDepth,
          related_depth \in 1..DefaultRelatedDepth,
          max_concepts \in 0..Cardinality(Concepts) :
         /\ call' = [op |-> "expand_seeds", times |-> 1,
                     seed_titles |-> seed_titles,
                     prereq_depth |-> prereq_depth,
                     related_depth |-> related_depth,
                     max_concepts |-> max_concepts,
                     max_examples_per_concept |-> DefaultMaxExamples]
         /\ \E run \in ExpandSeedsRuns(graph, seed_titles, prereq_depth, related_depth,
                                       max_concepts, DefaultMaxExamples) :
               /\ ret' = run.subgraph
               /\ locals' = [merged |-> run.merged, sorted_concepts |-> run.sorted_concepts]
         /\ queries' = queries + ExpandSeedsQueries(seed_titles)
    /\ UNCHANGED <<collection, crawler, graph, index, prev, pc, session>>

\* The entries a merged list is made of: seeds at depth 0, prerequisites at
\* depth 1 and more, peer-related concepts at depth 1.
MergedEntries ==
    {[title |-> t, definition |-> "", difficulty |-> "unknown", depth |-> k.depth,
      relation_to_seed |-> k.relation, seed_concept |-> "A"] :
        t \in Concepts,
        k \in {[depth |-> 0, relation |-> "seed"], [depth |-> 1, relation |-> "prerequisite"],
               [depth |-> 2, relation |-> "prerequisite"], [depth |-> 1, relation |-> "sibling"]}}

\* _deduplicate_concepts on a list of its own.  It reads no graph, so it is
\* exercised from the empty graph only.
Deduplicate ==
    /\ call.op = "none"
    /\ graph = Graph({}, {})
    /\ \E concepts \in SeqsUpTo(MergedEntries, MaxMerged),
          max_concepts \in 0..Cardinality(Concepts) :
         /\ call' = [op |-> "_deduplicate_concepts", concepts |-> concepts,
                     max_concepts |-> max_concepts]
         /\ locals' = [merged |-> concepts,
                       sorted_concepts |-> SortedByDepth(SeenValues(concepts, <<>>))]
         /\ ret' = [concepts |-> DeduplicateConcepts(concepts, max_concepts)]
    /\ UNCHANGED <<collection, crawler, graph, index, prev, queries, pc, session>>

NextExpand == ExpandSeeds \/ Deduplicate

SpecExpand == InitExpand /\ [][NextExpand]_vars

(***************************************************************************)
(* Specification SpecRepeat: expand_seeds, then expand_seeds again with    *)
(* identical arguments against the unchanged graph.                        *)
(***************************************************************************)
ExpandSeedsAgain ==
    /\ call.op = "expand_seeds" /\ call.times = 1
    /\ call' = [call EXCEPT !.times = 2]
    /\ prev' = ret
    /\ \E run \in ExpandSeedsRuns(graph, call.seed_titles, call.prereq_depth,
                                  call.related_depth, call.max_concepts,
                                  call.max_examples_per_concept) :
          /\ ret' = run.subgraph
          /\ locals' = [merged |-> run.merged, sorted_concepts |-> run.sorted_concepts]
    /\ queries' = queries + ExpandSeedsQueries(call.seed_titles)
    /\ UNCHANGED <<collection, crawler, graph, index, pc, session>>

NextRepeat == ExpandSeeds \/ ExpandSeedsAgain

SpecRepeat == InitExpand /\ [][NextRepeat]_vars

(***************************************************************************)
(* ConceptEmbedder.search.  An index entry carries the L2 distance of the   *)
(* query to it in hundredths; a returned score is kept in ten-thousandths   *)
(* (round(score, 4)) and a min_score in hundred-thousandths, so a min_score *)
(* can lie between two returned scores and every comparison is exact.       *)
(***************************************************************************)
\* round(1 / (1 + distance), 4), in ten-thousandths: the double nearest to
\* the score is rounded to the nearest of them.  A score lies halfway between
\* two of them only for 1 + distance = 1.28 * 5^k, k = 0..6.  For k <= 2
\* (3200 % n = 0) the score, 5^(2-k) / 32, is a double, and round takes it
\* to the even neighbour, which is the lower one; for k > 2 it is no double,
\* the nearest double lies above it, and round takes that to the upper one.
RoundedScore(distance) ==
    LET n == 100 + distance
        below == 1000000 \div n
    IN IF 2000000 % (2 * n) = n
       THEN (IF 3200 % n = 0 THEN below ELSE below + 1)
       ELSE (2000000 + n) \div (2 * n)

\* score < min_score for the unrounded score = 1 / (1 + distance)
ScoreBelow(distance, min_score) == 10000000 < min_score * (100 + distance)

\* An Optional[float]: None, or a value in hundred-thousandths.
None == [is_none |-> TRUE, value |-> 0]

Some(v) == [is_none |-> FALSE, value |-> v]

\* `if min_score`: neither None nor 0.
Truthy(min_score) == ~min_score.is_none /\ min_score.value # 0

\* collection.query(n_results=top_k) and the loop of lines 172-191.
Search(idx, top_k, min_score) ==
    LET hits == Prefix(idx, top_k)
        kept == SelectSeq(hits, LAMBDA h :
                    ~(Truthy(min_score) /\ ScoreBelow(h.distance, min_score.value)))
    IN [i \in DOMAIN kept |->
            [title |-> kept[i].title,
             definition |-> kept[i].definition,
             difficulty |-> kept[i].difficulty,
             score |-> RoundedScore(kept[i].distance),
             full_text |-> kept[i].document]]

(***************************************************************************)
(* HybridRetriever.retrieve                                                *)
(***************************************************************************)
EmptySubgraph ==
    [seed_concepts |-> <<>>, concepts |-> <<>>, resources |-> <<>>,
     examples |-> <<>>, prereq_chain |-> <<>>]

RetrievalResult(query, semantic_matches, seed_concepts, subgraph, ordered_concepts) ==
    [query |-> query, semantic_matches |-> semantic_matches,
     seed_concepts |-> seed_concepts, subgraph |-> subgraph,
     ordered_concepts |-> ordered_concepts]

\* Mutant of ExpandAndOrder: get_topological_order is handed the seed titles
\* instead of the concepts of the Subgraph.
ExpandAndOrderSeeds(g, query, semantic_matches, seed_concepts, args) ==
    UNION {
        {[result |-> RetrievalResult(query, semantic_matches, seed_concepts, run.subgraph,
                        TopologicalOrder(seed_concepts, edges)),
          semantic_matches |-> semantic_matches,
          queries |-> ExpandSeedsQueries(seed_concepts) + 1] :
            edges \in Orderings(InternalEdges(g, seed_concepts))}
        : run \in ExpandSeedsRuns(g, seed_concepts, args.prereq_depth, args.related_depth,
                                  args.max_concepts, args.max_examples_per_concept)}

\* Lines 124-141: expansion, ordering and assembly, with the queries issued.
ExpandAndOrder(g, query, semantic_matches, seed_concepts, args) ==
    UNION {
        {[result |-> RetrievalResult(query, semantic_matches, seed_concepts, run.subgraph,
                        TopologicalOrder(TitlesOf(run.subgraph.concepts), edges)),
          semantic_matches |-> semantic_matches,
          queries |-> ExpandSeedsQueries(seed_concepts) + 1] :
            edges \in Orderings(InternalEdges(g, TitlesOf(run.subgraph.concepts)))}
        : run \in ExpandSeedsRuns(g, seed_concepts, args.prereq_depth, args.related_depth,
                                  args.max_concepts, args.max_examples_per_concept)}

\* Mutant of RetrieveRuns: no short-circuit on an empty seed list.
RetrieveRunsAlwaysExpanding(g, idx, args) ==
    LET semantic_matches == Search(idx, args.top_k_semantic, args.min_semantic_score)
        seed_concepts == TitlesOf(semantic_matches)
    IN ExpandAndOrder(g, args.query, semantic_matches, seed_concepts, args)

\* Every way retrieve can run: what it returns, what search returned to it and
\* how many graph queries it issued.
RetrieveRuns(g, idx, args) ==
    LET semantic_matches == Search(idx, args.top_k_semantic, args.min_semantic_score)
        seed_concepts == TitlesOf(semantic_matches)
    IN IF seed_concepts = <<>>
       THEN {[result |-> RetrievalResult(args.query, <<>>, <<>>, EmptySubgraph, <<>>),
              semantic_matches |-> semantic_matches,
              queries |-> 0]}
       ELSE ExpandAndOrder(g, args.query, semantic_matches, seed_concepts, args)

\* The loop of lines 164-166: a title is appended unless the list holds it.
RECURSIVE AppendNew(_, _)
AppendNew(seed_concepts, titles) ==
    IF titles = <<>> THEN seed_concepts
    ELSE AppendNew(IF Contains(seed_concepts, Head(titles)) THEN seed_concepts
                   ELSE Append(seed_concepts, Head(titles)),
                   Tail(titles))

\* Mutant of RetrieveExplicitRuns: expand_seeds is handed the explicit concepts
\* alone, the result the union.
RetrieveExplicitRunsOfExplicit(g, idx, explicit_concepts, args) ==
    LET semantic_matches == Search(idx, args.top_k_semantic, args.min_semantic_score)
        seed_concepts == AppendNew(explicit_concepts, TitlesOf(semantic_matches))
    IN {[run EXCEPT !.result.seed_concepts = seed_concepts] :
           run \in ExpandAndOrder(g, args.query, semantic_matches, explicit_concepts, args)}

\* Every way retrieve_with_explicit_concepts can run (lines 156-185); an empty
\* seed list is expanded like any other.
RetrieveExplicitRuns(g, idx, explicit_concepts, args) ==
    LET semantic_matches == Search(idx, args.top_k_semantic, args.min_semantic_score)
        seed_concepts == AppendNew(explicit_concepts, TitlesOf(semantic_matches))
    IN ExpandAndOrder(g, args.query, semantic_matches, seed_concepts, args)

(***************************************************************************)
(* Specification SpecRetrieve: retrieve called on a graph and an index.    *)
(***************************************************************************)
\* The distances an index entry can have: scores 1.0, 0.4, 0.3333... and 0.25.
Distances == {0, 150, 200, 300}

IndexEntries ==
    {[title |-> t, definition |-> "definition of " \o t, difficulty |-> "beginner",
      document |-> t, distance |-> d] : t \in Titles, d \in Distances}

\* Rankings of entries with different titles, nearest first.
Indexes ==
    {idx \in SeqsUpTo(IndexEntries, MaxHits) :
        /\ \A i, j \in DOMAIN idx : i < j => idx[i].distance <= idx[j].distance
        /\ \A i, j \in DOMAIN idx : idx[i].title = idx[j].title => i = j}

\* The graphs retrieved from: any of the PREREQ_OF relationships A->B, B->C and
\* C->A (a chain, a cycle, or none) and no or one peer relationship.
RetrieveGraphs ==
    {Graph(p, r) : p \in SUBSET {<<"A", "B">>, <<"B", "C">>, <<"C", "A">>},
                   r \in {{}, {<<"A", "SIBLING", "B">>}}}

InitRetrieve ==
    /\ graph \in RetrieveGraphs
    /\ index \in Indexes
    /\ call = NoCall
    /\ ret = NoResult
    /\ locals = NoResult
    /\ prev = NoResult
    /\ queries = 0
    /\ pc = Idle
    /\ session = NoSession
    /\ crawler = NoCrawler
    /\ collection = Created(1)

Retrieve ==
    /\ call.op = "none"
    /\ \E top_k_semantic \in 1..MaxHits,
          min_semantic_score \in {None, Some(0), Some(DefaultMinScore)},
          max_concepts \in {1, DefaultMaxConcepts} :
         /\ call' = [op |-> "retrieve",
                     query |-> "query",
                     top_k_semantic |-> top_k_semantic,
                     min_semantic_score |-> min_semantic_score,
                     prereq_depth |-> DefaultPrereqDepth,
                     related_depth |-> DefaultRelatedDepth,
                     max_concepts |-> max_concepts,
                     max_examples_per_concept |-> DefaultMaxExamples]
         /\ \E run \in RetrieveRuns(graph, index, call') :
               /\ ret' = run.result
               /\ locals' = [semantic_matches |-> run.semantic_matches]
               /\ queries' = queries + run.queries
    /\ UNCHANGED <<collection, crawler, graph, index, prev, pc, session>>

NextRetrieve == Retrieve

SpecRetrieve == InitRetrieve /\ [][NextRetrieve]_vars

(***************************************************************************)
(* Specification SpecRecords: expand_seeds called on a graph that holds    *)
(* Resource and Example nodes, some of them without a property.            *)
(***************************************************************************)
\* EXPLAINS relationships <<url, concept>> of two resources; the resource u2
\* carries no type.
ExplainsEdges == {<<"u1", "A">>, <<"u1", "B">>, <<"u2", "A">>}

ResourceTypes == [u \in {"u1", "u2"} |-> IF u = "u1" THEN "pdf" ELSE NULL]

\* Example nodes with their EXEMPLIFIES relationship; e2 carries no property
\* and e5 the type the import gives an example without one.
Examples ==
    {[id |-> "e1", concept |-> "A", text |-> "text of e1", example_type |-> "code",
      source_url |-> "u1"],
     [id |-> "e2", concept |-> "A", text |-> NULL, example_type |-> NULL,
      source_url |-> NULL],
     [id |-> "e3", concept |-> "A", text |-> "text of e3", example_type |-> "math",
      source_url |-> NULL],
     [id |-> "e4", concept |-> "B", text |-> "text of e4", example_type |-> "code",
      source_url |-> "u1"],
     [id |-> "e5", concept |-> "A", text |-> "text of e5", example_type |-> "unknown",
      source_url |-> "u1"]}

RecordGraphs ==
    {[Graph({<<"B", "A">>}, {}) EXCEPT !.explains = x, !.resourceType = ResourceTypes,
                                       !.exemplifies = e] :
        x \in SUBSET ExplainsEdges, e \in SUBSET Examples}

InitRecords ==
    /\ graph \in RecordGraphs
    /\ index = <<>>
    /\ call = NoCall
    /\ ret = NoResult
    /\ locals = NoResult
    /\ prev = NoResult
    /\ queries = 0
    /\ pc = Idle
    /\ session = NoSession
    /\ crawler = NoCrawler
    /\ collection = Created(1)

NextRecords == ExpandSeeds

SpecRecords == InitRecords /\ [][NextRecords]_vars

(***************************************************************************)
(* Specification SpecExplicit: retrieve_with_explicit_concepts called with *)
(* a list of explicit seeds and the defaults of the other keyword          *)
(* arguments, top_k_semantic apart.                                        *)
(***************************************************************************)
RetrieveWithExplicitConcepts ==
    /\ call.op = "none"
    /\ \E explicit_concepts \in SeedLists, top_k_semantic \in {1, DefaultExplicitTopK} :
         /\ call' = [op |-> "retrieve_with_explicit_concepts",
                     query |-> "query",
                     explicit_concepts |-> explicit_concepts,
                     top_k_semantic |-> top_k_semantic,
                     min_semantic_score |-> Some(DefaultMinScore),
                     prereq_depth |-> DefaultPrereqDepth,
                     related_depth |-> DefaultRelatedDepth,
                     max_concepts |-> DefaultMaxConcepts,
                     max_examples_per_concept |-> DefaultMaxExamples]
         /\ \E run \in RetrieveExplicitRuns(graph, index, explicit_concepts, call') :
               /\ ret' = run.result
               /\ locals' = [semantic_matches |-> run.semantic_matches]
               /\ queries' = queries + run.queries
    /\ UNCHANGED <<collection, crawler, graph, index, prev, pc, session>>

NextExplicit == RetrieveWithExplicitConcepts

SpecExplicit == InitRetrieve /\ [][NextExplicit]_vars

(***************************************************************************)
(* Specification SpecRelated: expand_seeds called with a related_depth of  *)
(* one to three hops on graphs of peer relationships.                      *)
(***************************************************************************)
\* A triangle of peer relationships of three types, one of them doubled by a
\* relationship of a fourth type, and a self-loop on A.
RelatedEdges ==
    {<<"A", "SIBLING", "B">>, <<"B", "IS_A", "C">>, <<"C", "PART_OF", "A">>,
     <<"B", "CONTRASTS_WITH", "A">>, <<"A", "SIBLING", "A">>}

\* None, one or two of them at a time.
RelatedGraphs == {Graph({}, r) : r \in {x \in SUBSET RelatedEdges : Cardinality(x) <= 2}}

\* One seed, present or not, given once or twice, and two seeds.
RelatedSeedLists == {<<a>> : a \in Titles} \cup {<<"A", "A">>, <<"C", "A">>}

RelatedDepths == {1, 2, 3}

InitRelated ==
    /\ graph \in RelatedGraphs
    /\ index = <<>>
    /\ call = NoCall
    /\ ret = NoResult
    /\ locals = NoResult
    /\ prev = NoResult
    /\ queries = 0
    /\ pc = Idle
    /\ session = NoSession
    /\ crawler = NoCrawler
    /\ collection = Created(1)

\* expand_seeds with the related_depth chosen by the caller.
ExpandSeedsRelated ==
    /\ call.op = "none"
    /\ \E seed_titles \in RelatedSeedLists, related_depth \in RelatedDepths :
         /\ call' = [op |-> "expand_seeds", times |-> 1,
                     seed_titles |-> seed_titles,
                     prereq_depth |-> DefaultPrereqDepth,
                     related_depth |-> related_depth,
                     max_concepts |-> DefaultMaxConcepts,
                     max_examples_per_concept |-> DefaultMaxExamples]
         /\ \E run \in ExpandSeedsRuns(graph, seed_titles, DefaultPrereqDepth, related_depth,
                                       DefaultMaxConcepts, DefaultMaxExamples) :
               /\ ret' = run.subgraph
               /\ locals' = [merged |-> run.merged, sorted_concepts |-> run.sorted_concepts]
         /\ queries' = queries + ExpandSeedsQueries(seed_titles)
    /\ UNCHANGED <<collection, crawler, graph, index, prev, pc, session>>

NextRelated == ExpandSeedsRelated

SpecRelated == InitRelated /\ [][NextRelated]_vars

(***************************************************************************)
(* Specification SpecPipeline: the threads of Calls run retrieve on one    *)
(* shared HybridRetriever.  A step of a call is one call of a gateway (the *)
(* vector search, or a session.run of the graph session) with the local    *)
(* computation that follows it; the steps of different calls interleave,   *)
(* and a gateway call can fail.                                            *)
(***************************************************************************)
\* Mutant of Frame: the intermediate results are kept on the shared retriever.
SharedFrame(c) == 1

\* The locals of retrieve, expand_seeds and get_topological_order live in the
\* frame of the invocation: the frame of call c.
Frame(c) == c

\* The locals of a call that has not run yet.
EmptyLocals(c) ==
    [owner |-> c, semantic_matches |-> <<>>, seed_concepts |-> <<>>, concepts |-> <<>>,
     prereq_chains |-> <<>>, resources |-> <<>>, examples |-> <<>>,
     subgraph |-> EmptySubgraph, log |-> <<>>]

\* The gateway calls of an invocation, in order: which call, whether it
\* returned, and the state of the invocation's graph session when it was issued.
Logged(l, op, ok, on) == [l EXCEPT !.log = Append(@, [op |-> op, ok |-> ok, session |-> on])]

\* An exception raised by gateway call op, on its way to the caller of retrieve.
Raised(op) == [raised |-> TRUE, op |-> op]

\* Mutant of Failure: the exception is caught and an empty result returned.
FailureSwallowed(l, op, on) ==
    [pc |-> "returned",
     ret |-> RetrievalResult("query", <<>>, <<>>, EmptySubgraph, <<>>),
     locals |-> Logged(l, op, FALSE, on)]

\* A gateway call raises: nothing in retrieve, expand_seeds or
\* get_topological_order catches, so the invocation ends with the exception.
Failure(l, op, on) ==
    [pc |-> "raised", ret |-> Raised(op), locals |-> Logged(l, op, FALSE, on)]

\* Mutant of SessionAfterExit: the session is closed by a call at the end of
\* the block, which an exception skips.
SessionLeftOpenOnRaise(outcome) == IF outcome = "raised" THEN "open" ELSE "closed"

\* The session on leaving `with self.driver.session() as session:`, whether
\* the block returned or raised.
SessionAfterExit(outcome) == "closed"

\* One gateway call of call c: it returns one of outcomes (the locals, the
\* position and the return value that follow), or it raises.  exits tells
\* whether the step leaves the session block when the call returns.
GatewayCall(c, op, outcomes, exits) ==
    \/ \E o \in outcomes :
          /\ locals' = [locals EXCEPT ![Frame(c)] = Logged(o.locals, op, TRUE, session[c])]
          /\ pc' = [pc EXCEPT ![c] = o.pc]
          /\ ret' = [ret EXCEPT ![c] = o.ret]
          /\ session' = [session EXCEPT ![c] = IF exits THEN SessionAfterExit("returned") ELSE @]
    \/ LET f == Failure(locals[Frame(c)], op, session[c])
       IN /\ locals' = [locals EXCEPT ![Frame(c)] = f.locals]
          /\ pc' = [pc EXCEPT ![c] = f.pc]
          /\ ret' = [ret EXCEPT ![c] = f.ret]
          /\ session' = [session EXCEPT ![c] =
                            IF @ = "open" THEN SessionAfterExit("raised") ELSE @]

\* An outcome that goes on to position next with locals l.
GoOn(c, l, next) == [locals |-> l, pc |-> next, ret |-> ret[c]]

\* retrieve is invoked: lines 98-121, the search and the short-circuit.
SearchStep(c) ==
    /\ pc[c] = "idle"
    /\ \E top_k_semantic \in 1..2 :
         LET args == [op |-> "retrieve", query |-> "query",
                      top_k_semantic |-> top_k_semantic,
                      min_semantic_score |-> Some(DefaultMinScore),
                      prereq_depth |-> DefaultPrereqDepth,
                      related_depth |-> DefaultRelatedDepth,
                      max_concepts |-> DefaultMaxConcepts,
                      max_examples_per_concept |-> DefaultMaxExamples]
             semantic_matches == Search(index, top_k_semantic, args.min_semantic_score)
             seed_concepts == TitlesOf(semantic_matches)
             l == [EmptyLocals(c) EXCEPT !.semantic_matches = semantic_matches,
                                         !.seed_concepts = seed_concepts]
         IN /\ call' = [call EXCEPT ![c] = args]
            /\ GatewayCall(c, "search",
                   {IF seed_concepts = <<>>
                    THEN [locals |-> l, pc |-> "returned",
                          ret |-> RetrievalResult(args.query, <<>>, <<>>, EmptySubgraph, <<>>)]
                    ELSE GoOn(c, l, "expand")}, FALSE)
    /\ UNCHANGED <<collection, crawler, graph, index, prev, queries>>

\* `with self.driver.session() as session:` of expand_seeds (line 139) and of
\* get_topological_order (line 358).
EnterSession(c) ==
    /\ pc[c] \in {"expand", "order"}
    /\ session' = [session EXCEPT ![c] = "open"]
    /\ pc' = [pc EXCEPT ![c] = IF pc[c] = "expand" THEN "seeds" ELSE "edges"]
    /\ UNCHANGED <<collection, crawler, graph, index, call, ret, locals, prev, queries>>

\* Line 141: the seed concepts.
QuerySeeds(c) ==
    /\ pc[c] = "seeds"
    /\ LET l == locals[Frame(c)]
       IN GatewayCall(c, "_get_seed_concepts",
              {GoOn(c, [l EXCEPT !.concepts = x], "prerequisites") :
                  x \in GetSeedConcepts(graph, l.seed_concepts)}, FALSE)
    /\ queries' = [queries EXCEPT ![c] = @ + 1]
    /\ UNCHANGED <<collection, crawler, graph, index, call, prev>>

\* Lines 144-145: the prerequisites, appended to the concepts.
QueryPrerequisites(c) ==
    /\ pc[c] = "prerequisites"
    /\ LET l == locals[Frame(c)]
       IN GatewayCall(c, "_get_prerequisites",
              {GoOn(c, [l EXCEPT !.concepts = @ \o x], "related") :
                  x \in GetPrerequisites(graph, l.seed_concepts, call[c].prereq_depth)}, FALSE)
    /\ queries' = [queries EXCEPT ![c] = @ + 1]
    /\ UNCHANGED <<collection, crawler, graph, index, call, prev>>

\* Lines 148-152: the related concepts, then the deduplication.
QueryRelated(c) ==
    /\ pc[c] = "related"
    /\ LET l == locals[Frame(c)]
       IN GatewayCall(c, "_get_related_concepts",
              {GoOn(c, [l EXCEPT !.concepts = DeduplicateConcepts(@ \o x, call[c].max_concepts)],
                    IF l.seed_concepts = <<>> THEN "resources" ELSE "chains") :
                  x \in GetRelatedConcepts(graph, l.seed_concepts, call[c].related_depth)}, FALSE)
    /\ queries' = [queries EXCEPT ![c] = @ + 1]
    /\ UNCHANGED <<collection, crawler, graph, index, call, prev>>

\* Line 155: one query of the loop of _get_prereq_chains, for the next seed.
QueryChain(c) ==
    /\ pc[c] = "chains"
    /\ LET l == locals[Frame(c)]
           k == Len(l.prereq_chains) + 1
       IN /\ k <= Len(l.seed_concepts)
          /\ GatewayCall(c, "_get_prereq_chains",
                 {GoOn(c, [l EXCEPT !.prereq_chains = Append(@, x)],
                       IF k = Len(l.seed_concepts) THEN "resources" ELSE "chains") :
                     x \in ChainsOfSeed(graph, l.seed_concepts[k], call[c].prereq_depth)}, FALSE)
    /\ queries' = [queries EXCEPT ![c] = @ + 1]
    /\ UNCHANGED <<collection, crawler, graph, index, call, prev>>

\* Lines 158-159: the resources of the deduplicated concepts.
QueryResources(c) ==
    /\ pc[c] = "resources"
    /\ LET l == locals[Frame(c)]
       IN GatewayCall(c, "_get_resources",
              {GoOn(c, [l EXCEPT !.resources = x], "examples") :
                  x \in GetResources(graph, TitlesOf(l.concepts))}, FALSE)
    /\ queries' = [queries EXCEPT ![c] = @ + 1]
    /\ UNCHANGED <<collection, crawler, graph, index, call, prev>>

\* Lines 162-170: the examples, the end of the session block, the Subgraph.
QueryExamples(c) ==
    /\ pc[c] = "examples"
    /\ LET l == locals[Frame(c)]
       IN GatewayCall(c, "_get_examples",
              {GoOn(c, [l EXCEPT !.examples = x,
                                 !.subgraph = [seed_concepts |-> l.seed_concepts,
                                               concepts |-> l.concepts,
                                               resources |-> l.resources,
                                               examples |-> x,
                                               prereq_chain |-> l.prereq_chains]],
                    "order") :
                  x \in GetExamples(graph, TitlesOf(l.concepts),
                                    call[c].max_examples_per_concept)}, TRUE)
    /\ queries' = [queries EXCEPT ![c] = @ + 1]
    /\ UNCHANGED <<collection, crawler, graph, index, call, prev>>

\* get_topological_order from its query on (lines 360-400), and the
\* RetrievalResult of lines 135-141.
QueryEdges(c) ==
    /\ pc[c] = "edges"
    /\ LET l == locals[Frame(c)]
           titles == TitlesOf(l.subgraph.concepts)
       IN GatewayCall(c, "get_topological_order",
              {[locals |-> l, pc |-> "returned",
                ret |-> RetrievalResult(call[c].query, l.semantic_matches, l.seed_concepts,
                                        l.subgraph, TopologicalOrder(titles, edges))] :
                  edges \in Orderings(InternalEdges(graph, titles))}, TRUE)
    /\ queries' = [queries EXCEPT ![c] = @ + 1]
    /\ UNCHANGED <<collection, crawler, graph, index, call, prev>>

\* An entry of the vector index.
Hit(t, d) ==
    [title |-> t, definition |-> "definition of " \o t, difficulty |-> "beginner",
     document |-> t, distance |-> d]

\* No entry; one entry under the default min_semantic_score; two rankings of
\* two entries above it.
PipelineIndexes ==
    {<<>>, <<Hit("A", 300)>>, <<Hit("A", 0), Hit("B", 150)>>, <<Hit("B", 0), Hit("A", 150)>>}

\* Two prerequisites of one concept; a cycle with a peer relationship.
PipelineGraphs ==
    {Graph({<<"B", "A">>, <<"C", "A">>}, {}),
     Graph({<<"A", "B">>, <<"B", "A">>}, {<<"A", "SIBLING", "C">>})}

InitPipeline ==
    /\ graph \in PipelineGraphs
    /\ index \in PipelineIndexes
    /\ call = [c \in Calls |-> NoCall]
    /\ ret = [c \in Calls |-> NoResult]
    /\ locals = [c \in Calls |-> EmptyLocals(c)]
    /\ prev = NoResult
    /\ queries = [c \in Calls |-> 0]
    /\ pc = Idle
    /\ session = NoSession
    /\ crawler = NoCrawler
    /\ collection = Created(1)

NextPipeline ==
    \E c \in Calls :
        \/ SearchStep(c)
        \/ EnterSession(c)
        \/ QuerySeeds(c)
        \/ QueryPrerequisites(c)
        \/ QueryRelated(c)
        \/ QueryChain(c)
        \/ QueryResources(c)
        \/ QueryExamples(c)
        \/ QueryEdges(c)

SpecPipeline == InitPipeline /\ [][NextPipeline]_vars

(***************************************************************************)
(* Specification SpecResults: one call of either entry point of the        *)
(* HybridRetriever, retrieve or retrieve_with_explicit_concepts.           *)
(***************************************************************************)
InitResults ==
    /\ graph \in PipelineGraphs
    /\ index \in PipelineIndexes
    /\ call = NoCall
    /\ ret = NoResult
    /\ locals = NoResult
    /\ prev = NoResult
    /\ queries = 0
    /\ pc = Idle
    /\ session = NoSession
    /\ crawler = NoCrawler
    /\ collection = Created(1)

NextResults == Retrieve \/ RetrieveWithExplicitConcepts

SpecResults == InitResults /\ [][NextResults]_vars

(***************************************************************************)
(* Crawler (src/src/ingestion/crawler.py).  The web site is a collaborator: *)
(* it answers each HTTP attempt as it likes, and a page that parses yields  *)
(* the hrefs of the site for it.                                            *)
(***************************************************************************)
\* The internal HTML pages of the site; "a.zip" is a download in its scope.
CrawlPages == {"p0", "p1", "p2"}

\* An href as written in a page: with or without a trailing slash or fragment.
Href(path, slash, fragment) == [path |-> path, slash |-> slash, fragment |-> fragment]

\* normalize_url: the fragment and the trailing slash are removed.
NormalizeUrl(href) == href.path

\* is_internal_page: in scope and not a file download.
IsInternalPage(url) == url \in CrawlPages

\* extract_links: the normalized hrefs of a page, each once, in page order.
RECURSIVE ExtractLinks(_, _)
ExtractLinks(hrefs, links) ==
    IF hrefs = <<>> THEN links
    ELSE LET url == NormalizeUrl(Head(hrefs))
         IN ExtractLinks(Tail(hrefs), IF Contains(links, url) THEN links ELSE Append(links, url))

\* What session.get can do: a status code, a timeout, another RequestException.
Responses == {"200", "404", "500", "timeout", "request_exception"}

\* The _fetch_page call on url before its first attempt.  result is
\* "pending" while the loop runs, "responded" while a response waits to be
\* handled, "recorded" once record_failure has been called and None is about
\* to be returned, and "html" or "none" once the call has returned.
NewFetch(url) == [url |-> url, attempts |-> 0, responses |-> <<>>, records |-> 0,
                  result |-> "pending"]

\* What one pass of the loop of _fetch_page does with the response it got,
\* up to its return of None (lines 168-215): `attempt` counts the attempts
\* made before this one and records the record_failure calls.
FetchAttempt(fetch, max_retries) ==
    LET response == fetch.responses[Len(fetch.responses)]
        attempt == fetch.attempts - 1
    IN IF response = "200" THEN [fetch EXCEPT !.result = "html"]
       ELSE IF response \in {"404", "request_exception"}
            THEN [fetch EXCEPT !.result = "recorded", !.records = @ + 1]
            ELSE IF attempt < max_retries THEN [fetch EXCEPT !.result = "pending"]
                 ELSE [fetch EXCEPT !.result = "recorded", !.records = @ + 1]

\* `for attempt in range(self.max_retries + 1)` has no pass left (line 164):
\* _fetch_page falls through to the `return None` of line 217.  After a
\* retry a pass is always left, so this happens only before the first pass,
\* when max_retries is negative.
Exhausted(fetch, max_retries) == fetch.attempts >= max_retries + 1

\* Mutant of AlreadyVisited: the visited set is not consulted.
NeverVisited(url, visited) == FALSE

\* `if url in self.visited: continue` (lines 84-85)
AlreadyVisited(url, visited) == url \in visited

(***************************************************************************)
(* Specification SpecCrawl: one Crawler.crawl run.  A KeyboardInterrupt    *)
(* can arrive wherever the run is, so the run is taken a step at a time:   *)
(* each action ends where the code next waits or next changes its state.   *)
(***************************************************************************)
\* A site whose pages link to each other in a cycle, to the same page from
\* several pages and under several spellings, and to a download; and a site
\* whose root links to itself.
Sites ==
    {[p \in CrawlPages |->
        CASE p = "p0" -> <<Href("p1", FALSE, FALSE), Href("p1", TRUE, FALSE),
                           Href("p2", FALSE, TRUE), Href("a.zip", FALSE, FALSE)>>
          [] p = "p1" -> <<Href("p0", FALSE, FALSE), Href("p2", FALSE, FALSE)>>
          [] OTHER -> <<Href("p1", FALSE, TRUE)>>],
     [p \in CrawlPages |->
        CASE p = "p0" -> <<Href("p0", TRUE, FALSE), Href("p1", FALSE, FALSE)>>
          [] OTHER -> <<>>]}

\* The start URLs: the root as COURSE_ROOT spells it, with a trailing slash,
\* and a page given with a fragment.
StartUrls == {Href("p0", TRUE, FALSE), Href("p1", FALSE, TRUE)}

InitCrawl ==
    /\ graph = Graph({}, {})
    /\ index = <<>>
    /\ call = NoCall
    /\ ret = NoResult
    /\ locals = NoResult
    /\ prev = NoResult
    /\ queries = 0
    /\ pc = Idle
    /\ session = NoSession
    /\ collection = Created(1)
    /\ \E site \in Sites, max_retries \in {-1, 0, 1, 2} :
          crawler = [pc |-> "new", site |-> site, max_retries |-> max_retries,
                     queue |-> <<>>, visited |-> {}, url |-> "", fetch |-> NewFetch(""),
                     links |-> <<>>, processed |-> [u \in CrawlPages |-> 0],
                     failures |-> [u \in CrawlPages |-> 0],
                     failed |-> {}, pages_processed |-> 0, interrupted |-> FALSE,
                     raising |-> FALSE]

\* crawl up to its loop: the normalized start URL is queued (lines 73-77).
Crawl ==
    /\ crawler.pc = "new"
    /\ \E start_url \in StartUrls :
          crawler' = [crawler EXCEPT !.pc = "loop",
                                     !.queue = Append(@, NormalizeUrl(start_url))]
    /\ UNCHANGED <<collection, graph, index, call, ret, locals, prev, queries, pc, session>>

\* KeyboardInterrupt before the try of line 79, with the start URL queued or
\* not yet: no handler is in place and it leaves crawl as an exception.
InterruptBeforeLoop ==
    /\ crawler.pc = "new"
    /\ \E start_url \in StartUrls :
          \/ crawler' = [crawler EXCEPT !.pc = "raised", !.interrupted = TRUE,
                                        !.raising = TRUE]
          \/ crawler' = [crawler EXCEPT !.pc = "raised", !.interrupted = TRUE,
                                        !.raising = TRUE,
                                        !.queue = Append(@, NormalizeUrl(start_url))]
    /\ UNCHANGED <<collection, graph, index, call, ret, locals, prev, queries, pc, session>>

\* `url = self.queue.popleft()` (line 81).
NextUrl ==
    /\ crawler.pc = "loop"
    /\ crawler.queue # <<>>
    /\ crawler' = [crawler EXCEPT !.url = Head(crawler.queue), !.queue = Tail(@),
                                  !.pc = "popped"]
    /\ UNCHANGED <<collection, graph, index, call, ret, locals, prev, queries, pc, session>>

\* The visited test and, for a new URL, visited.add (lines 84-87).
VisitUrl ==
    /\ crawler.pc = "popped"
    /\ crawler' =
         IF AlreadyVisited(crawler.url, crawler.visited)
         THEN [crawler EXCEPT !.pc = "loop"]
         ELSE [crawler EXCEPT !.visited = @ \cup {crawler.url}, !.pc = "visited"]
    /\ UNCHANGED <<collection, graph, index, call, ret, locals, prev, queries, pc, session>>

\* The call of _process_page, which calls _fetch_page at once (lines 90, 122).
CallProcessPage ==
    /\ crawler.pc = "visited"
    /\ crawler' = [crawler EXCEPT !.processed[crawler.url] = @ + 1,
                                  !.fetch = NewFetch(crawler.url),
                                  !.pc = "fetch"]
    /\ UNCHANGED <<collection, graph, index, call, ret, locals, prev, queries, pc, session>>

\* One session.get of _fetch_page (line 166), answered as the site likes.
HttpAttempt ==
    /\ crawler.pc = "fetch"
    /\ ~Exhausted(crawler.fetch, crawler.max_retries)
    /\ \E response \in Responses :
          crawler' = [crawler EXCEPT !.fetch.attempts = @ + 1,
                                     !.fetch.responses = Append(@, response),
                                     !.fetch.result = "responded",
                                     !.pc = "response"]
    /\ UNCHANGED <<collection, graph, index, call, ret, locals, prev, queries, pc, session>>

\* The rest of the pass of the loop of _fetch_page, up to the return of the
\* HTML, the next pass, or the record_failure call before `return None`.
HandleResponse ==
    /\ crawler.pc = "response"
    /\ LET f == FetchAttempt(crawler.fetch, crawler.max_retries)
           url == crawler.fetch.url
       IN crawler' =
            [crawler EXCEPT !.fetch = f,
                            !.failures[url] = @ + (f.records - crawler.fetch.records),
                            !.pc = CASE f.result = "pending" -> "fetch"
                                     [] f.result = "html" -> "parse"
                                     [] OTHER -> "recorded"]
    /\ UNCHANGED <<collection, graph, index, call, ret, locals, prev, queries, pc, session>>

\* `return None` of _fetch_page after its record_failure call, and `return
\* False` of _process_page (lines 123-124): the loop of crawl goes on.
ReturnNone ==
    /\ crawler.pc = "recorded"
    /\ crawler' = [crawler EXCEPT !.fetch.result = "none",
                                  !.failed = @ \cup {crawler.fetch.url},
                                  !.pc = "loop"]
    /\ UNCHANGED <<collection, graph, index, call, ret, locals, prev, queries, pc, session>>

\* The `return None` of line 217, which records no failure, and `return
\* False` of _process_page.
FallThrough ==
    /\ crawler.pc = "fetch"
    /\ Exhausted(crawler.fetch, crawler.max_retries)
    /\ crawler' = [crawler EXCEPT !.fetch.result = "none",
                                  !.failed = @ \cup {crawler.fetch.url},
                                  !.pc = "loop"]
    /\ UNCHANGED <<collection, graph, index, call, ret, locals, prev, queries, pc, session>>

\* _process_page from the parse to the save (lines 126-140): a parse error is
\* recorded and False returned, or the page is saved and its internal links
\* wait to be queued.
ProcessPage ==
    /\ crawler.pc = "parse"
    /\ LET url == crawler.fetch.url
       IN \/ crawler' = [crawler EXCEPT !.failures[url] = @ + 1, !.pc = "loop"]
          \/ crawler' = [crawler EXCEPT !.links = ExtractLinks(crawler.site[url], <<>>),
                                        !.pc = "links"]
    /\ UNCHANGED <<collection, graph, index, call, ret, locals, prev, queries, pc, session>>

\* One pass of the loop of lines 146-148.
QueueLink ==
    /\ crawler.pc = "links"
    /\ crawler.links # <<>>
    /\ LET link == Head(crawler.links)
       IN crawler' = [crawler EXCEPT
                        !.links = Tail(@),
                        !.queue = IF link \notin crawler.visited /\ IsInternalPage(link)
                                  THEN Append(@, link) ELSE @]
    /\ UNCHANGED <<collection, graph, index, call, ret, locals, prev, queries, pc, session>>

\* _process_resources and _download_images, the return of True and the
\* count of the page (lines 151-156, 92-93).
FinishPage ==
    /\ crawler.pc = "links"
    /\ crawler.links = <<>>
    /\ crawler' = [crawler EXCEPT !.pages_processed = @ + 1, !.pc = "loop"]
    /\ UNCHANGED <<collection, graph, index, call, ret, locals, prev, queries, pc, session>>

\* `while self.queue` finds the queue empty (line 80): the finally block is
\* next.
EndCrawl ==
    /\ crawler.pc = "loop"
    /\ crawler.queue = <<>>
    /\ crawler' = [crawler EXCEPT !.pc = "summary"]
    /\ UNCHANGED <<collection, graph, index, call, ret, locals, prev, queries, pc, session>>

\* KeyboardInterrupt during the loop, caught by crawl (lines 107-108): the
\* finally block is next.
Interrupt ==
    /\ crawler.pc \in {"loop", "popped", "visited", "fetch", "response", "recorded",
                      "parse", "links"}
    /\ crawler' = [crawler EXCEPT !.pc = "summary", !.interrupted = TRUE]
    /\ UNCHANGED <<collection, graph, index, call, ret, locals, prev, queries, pc, session>>

\* A call of the storage raises: record_failure before it has written (lines
\* 173, 187, 201, 210, 131), save_page (line 137), or the calls of
\* _process_resources and _download_images.  crawl catches no such
\* exception: the finally block runs and the exception leaves crawl.
StorageError ==
    /\ \/ /\ crawler.pc = "response"
          /\ FetchAttempt(crawler.fetch, crawler.max_retries).result = "recorded"
       \/ crawler.pc = "parse"
       \/ crawler.pc = "links" /\ crawler.links = <<>>
    /\ crawler' = [crawler EXCEPT !.pc = "summary", !.raising = TRUE]
    /\ UNCHANGED <<collection, graph, index, call, ret, locals, prev, queries, pc, session>>

\* The finally block (lines 110-113): _print_summary reads the storage.  crawl
\* returns after it, unless an exception is on its way out or the block
\* itself is left by a storage error or a KeyboardInterrupt.
PrintSummary ==
    /\ crawler.pc = "summary"
    /\ \/ crawler' = [crawler EXCEPT !.pc = IF crawler.raising THEN "raised" ELSE "done"]
       \/ crawler' = [crawler EXCEPT !.pc = "raised", !.raising = TRUE]
    /\ UNCHANGED <<collection, graph, index, call, ret, locals, prev, queries, pc, session>>

NextCrawl ==
    \/ Crawl
    \/ InterruptBeforeLoop
    \/ NextUrl
    \/ VisitUrl
    \/ CallProcessPage
    \/ HttpAttempt
    \/ HandleResponse
    \/ ReturnNone
    \/ FallThrough
    \/ ProcessPage
    \/ QueueLink
    \/ FinishPage
    \/ EndCrawl
    \/ Interrupt
    \/ StorageError
    \/ PrintSummary

SpecCrawl == InitCrawl /\ [][NextCrawl]_vars

(***************************************************************************)
(* Specification SpecSearch: one thread calls ConceptEmbedder.search while *)
(* another calls embed_all_concepts on the same Chroma collection.  Each    *)
(* action is one call of the Chroma server, of MongoDB or of the embedding  *)
(* model, with what the method does up to its next call.                    *)
(***************************************************************************)
\* A concept document of MongoDB; distance is the L2 distance from the query
\* of the embedding of its text.  NULL stands for a definition stored as
\* null and for a missing difficulty.
Stored(title, distance, definition, difficulty) ==
    [title |-> title, distance |-> distance, definition |-> definition,
     difficulty |-> difficulty]

\* What db.concepts.find can return: nothing; one and two concepts; a concept
\* without a title among others, one of them at distance 0.28, whose score
\* 0.78125 lies halfway between 0.7812 and 0.7813; a concept whose
\* definition is null after one that is sound.
StoredLists ==
    {<<>>,
     <<Stored("A", 0, "definition of A", "beginner")>>,
     <<Stored("A", 0, "definition of A", "beginner"),
       Stored("B", 150, "definition of B", NULL)>>,
     <<Stored("B", 200, "definition of B", "beginner"),
       Stored("", 0, "definition", "beginner"),
       Stored("C", 28, "", "beginner")>>,
     <<Stored("A", 300, "definition of A", "beginner"),
       Stored("C", 150, NULL, "beginner")>>}

\* _concept_to_text without aliases (lines 61-74)
ConceptToText(concept) ==
    IF concept.definition \in {"", NULL} THEN concept.title
    ELSE concept.title \o ". " \o concept.definition

\* The entry added for a concept (lines 110-120); definitions here are
\* shorter than the 500 characters kept.
EntryOf(concept) ==
    [title |-> concept.title,
     definition |-> concept.definition,
     difficulty |-> IF concept.difficulty = NULL THEN "unknown" ELSE concept.difficulty,
     document |-> ConceptToText(concept),
     distance |-> concept.distance]

\* The rankings with entry e put into ranking idx: nearest first, and among
\* entries at one distance anywhere.
Ranked(idx, e) ==
    {SubSeq(idx, 1, k) \o <<e>> \o SubSeq(idx, k + 1, Len(idx)) :
        k \in {k \in 0..Len(idx) :
                 /\ \A i \in 1..k : idx[i].distance <= e.distance
                 /\ \A i \in (k + 1)..Len(idx) : e.distance <= idx[i].distance}}

\* collection.add of the entries of a batch (lines 129-134): an entry whose
\* id, the hash of its title, is in the collection already is left out.
RECURSIVE Added(_, _)
Added(idx, entries) ==
    IF entries = <<>> THEN {idx}
    ELSE LET e == Head(entries)
         IN IF \E i \in DOMAIN idx : idx[i].title = e.title
            THEN Added(idx, Tail(entries))
            ELSE UNION {Added(r, Tail(entries)) : r \in Ranked(idx, e)}

\* The embed_all_concepts calls of one behaviour.
MaxEmbeds == 2

\* The collection is absent, or was filled by an earlier embed_all_concepts.
InitialIndexes ==
    UNION {Added(<<>>, [i \in DOMAIN l |-> EntryOf(l[i])]) :
             l \in {l \in StoredLists :
                      \A i \in DOMAIN l : l[i].title # "" /\ l[i].definition # NULL}}

InitSearch ==
    /\ graph = Graph({}, {})
    /\ \/ collection = Deleted(0) /\ index = <<>>
       \/ collection = Created(1) /\ index \in InitialIndexes
    /\ call = NoCall
    /\ ret = NoResult
    /\ locals = [op |-> "none", embeds |-> 0]
    /\ prev = NoResult
    /\ queries = 0
    /\ pc = [search |-> "idle", embed |-> "idle"]
    /\ session = NoSession
    /\ crawler = NoCrawler

\* search(query, top_k, min_score) up to get_collection (line 159), which
\* raises when there is no collection or the server cannot be reached; the
\* handle it returns holds the id of the collection.  min_score is None, 0,
\* 0.4 or 0.33333.
SearchCall ==
    /\ pc.search \in {"idle", "returned", "raised"}
    /\ \E top_k \in 1..MaxHits, reached \in BOOLEAN,
          min_score \in {None, Some(0), Some(DefaultMinScore), Some(33333)} :
         IF collection.exists /\ reached
         THEN /\ call' = [op |-> "search", query |-> "query", top_k |-> top_k,
                          min_score |-> min_score, handle |-> collection.id]
              /\ ret' = NoResult
              /\ pc' = [pc EXCEPT !.search = "query"]
         ELSE /\ call' = [op |-> "search", query |-> "query", top_k |-> top_k,
                          min_score |-> min_score, handle |-> 0]
              /\ ret' = Raised("get_collection")
              /\ pc' = [pc EXCEPT !.search = "raised"]
    /\ prev' = NoResult
    /\ UNCHANGED <<collection, crawler, graph, index, locals, queries, session>>

\* collection.query on the handle and the loop over its results (lines
\* 165-193); it raises when the collection of the handle is no more.  prev
\* keeps the collection as the query found it and as search left it.
SearchQuery ==
    /\ pc.search = "query"
    /\ \E reached \in BOOLEAN :
         IF collection.exists /\ collection.id = call.handle /\ reached
         THEN /\ ret' = Search(index, call.top_k, call.min_score)
              /\ pc' = [pc EXCEPT !.search = "returned"]
         ELSE /\ ret' = Raised("query")
              /\ pc' = [pc EXCEPT !.search = "raised"]
    /\ UNCHANGED <<collection, index>>
    /\ prev' = [found |-> index, left |-> index']
    /\ UNCHANGED <<call, crawler, graph, locals, queries, session>>

\* embed_all_concepts(clear_existing, batch_size) is called (line 88), with
\* batch_size 1 or the default 100.
EmbedAllConcepts ==
    /\ pc.embed \in {"idle", "returned", "raised"}
    /\ locals.embeds < MaxEmbeds
    /\ \E clear_existing \in BOOLEAN, batch_size \in {1, 100} :
         /\ locals' = [op |-> "embed_all_concepts", embeds |-> locals.embeds + 1,
                       clear_existing |-> clear_existing, batch_size |-> batch_size,
                       handle |-> 0, concepts |-> <<>>, i |-> 0,
                       total_embedded |-> 0, result |-> NoResult]
         /\ pc' = [pc EXCEPT !.embed = IF clear_existing THEN "delete" ELSE "create"]
    /\ UNCHANGED <<call, collection, crawler, graph, index, prev, queries, ret, session>>

\* delete_collection (lines 48-53): the collection is deleted with all it
\* holds; when there is none or the call fails, the exception is passed over.
DeleteCollection ==
    /\ pc.embed = "delete"
    /\ \E reached \in BOOLEAN :
         IF collection.exists /\ reached
         THEN collection' = Deleted(collection.id) /\ index' = <<>>
         ELSE UNCHANGED <<collection, index>>
    /\ pc' = [pc EXCEPT !.embed = "create"]
    /\ UNCHANGED <<call, crawler, graph, locals, prev, queries, ret, session>>

\* get_or_create_collection (lines 55-59): the handle of the collection, which
\* is created empty when there is none; a failure leaves embed_all_concepts.
GetOrCreateCollection ==
    /\ pc.embed = "create"
    /\ \E reached \in BOOLEAN :
         IF reached
         THEN /\ collection' = IF collection.exists THEN collection
                               ELSE Created(collection.id + 1)
              /\ locals' = [locals EXCEPT !.handle = collection'.id]
              /\ pc' = [pc EXCEPT !.embed = "find"]
         ELSE /\ locals' = [locals EXCEPT !.result = Raised("get_or_create_collection")]
              /\ pc' = [pc EXCEPT !.embed = "raised"]
              /\ UNCHANGED collection
    /\ UNCHANGED <<call, crawler, graph, index, prev, queries, ret, session>>

\* db.concepts.find (line 91); a failure leaves embed_all_concepts.
FindConcepts ==
    /\ pc.embed = "find"
    /\ \/ \E concepts \in StoredLists :
            /\ locals' = [locals EXCEPT !.concepts = concepts, !.i = 0]
            /\ pc' = [pc EXCEPT !.embed = "batch"]
       \/ /\ locals' = [locals EXCEPT !.result = Raised("find")]
          /\ pc' = [pc EXCEPT !.embed = "raised"]
    /\ UNCHANGED <<call, collection, crawler, graph, index, prev, queries, ret, session>>

\* One pass of the loop over the batches (lines 97-137): the entries of the
\* titled concepts of concepts[i : i + batch_size] are built, embedded and
\* added, unless the batch has none; `concept.get("definition", "")[:500]`
\* on a null definition, the model or the server can raise, and the
\* exception leaves embed_all_concepts with the collection as it is.
EmbedBatch ==
    /\ pc.embed = "batch"
    /\ locals.i < Len(locals.concepts)
    /\ LET last == IF locals.i + locals.batch_size < Len(locals.concepts)
                   THEN locals.i + locals.batch_size ELSE Len(locals.concepts)
           batch == SelectSeq(SubSeq(locals.concepts, locals.i + 1, last),
                              LAMBDA concept : concept.title # "")
           entries == [k \in DOMAIN batch |-> EntryOf(batch[k])]
           next == [locals EXCEPT !.i = @ + locals.batch_size]
       IN IF \E k \in DOMAIN batch : batch[k].definition = NULL
          THEN /\ locals' = [locals EXCEPT !.result = Raised("definition")]
               /\ pc' = [pc EXCEPT !.embed = "raised"]
               /\ UNCHANGED index
          ELSE IF batch = <<>>
          THEN /\ locals' = next
               /\ UNCHANGED <<pc, index>>
          ELSE \/ /\ index' \in Added(index, entries)
                  /\ locals' = [next EXCEPT !.total_embedded = @ + Len(batch)]
                  /\ UNCHANGED pc
               \/ /\ locals' = [locals EXCEPT !.result = Raised("add")]
                  /\ pc' = [pc EXCEPT !.embed = "raised"]
                  /\ UNCHANGED index
    /\ UNCHANGED <<call, collection, crawler, graph, prev, queries, ret, session>>

\* `return total_embedded` after the last batch (line 140).
EmbedReturn ==
    /\ pc.embed = "batch"
    /\ locals.i >= Len(locals.concepts)
    /\ locals' = [locals EXCEPT !.result = locals.total_embedded]
    /\ pc' = [pc EXCEPT !.embed = "returned"]
    /\ UNCHANGED <<call, collection, crawler, graph, index, prev, queries, ret, session>>

NextSearch ==
    \/ SearchCall
    \/ SearchQuery
    \/ EmbedAllConcepts
    \/ DeleteCollection
    \/ GetOrCreateCollection
    \/ FindConcepts
    \/ EmbedBatch
    \/ EmbedReturn

SpecSearch == InitSearch /\ [][NextSearch]_vars

(***************************************************************************)
(* Claims about expand_seeds                                               *)
(***************************************************************************)
Expanded == call.op = "expand_seeds"

Deduplicated == call.op = "_deduplicate_concepts"

PeerTags == {"is_a", "part_of", "sibling", "contrasts_with"}

\* seed > prerequisite > related
Rank(c) ==
    IF c.relation_to_seed = "seed" THEN 0
    ELSE IF c.relation_to_seed = "prerequisite" THEN 1 ELSE 2

Occurrences(m, t) == {i \in DOMAIN m : m[i].title = t}

\* The first of the lowest-depth occurrences of title t in m.
Winner(m, t) ==
    CHOOSE i \in Occurrences(m, t) :
        \A j \in Occurrences(m, t) :
            m[i].depth < m[j].depth \/ (m[i].depth = m[j].depth /\ i <= j)

Winners(m) == {m[Winner(m, t)] : t \in {m[i].title : i \in DOMAIN m}}

\* r is kept before x: lower depth, or equal depth and no lower precedence
Precedes(r, x) == r.depth < x.depth \/ (r.depth = x.depth /\ Rank(r) <= Rank(x))

\* C3: the concept list returned by expand_seeds (and by _deduplicate_concepts
\* on any list) has no title twice and is sorted in non-decreasing order of depth.
C3_DistinctAndSorted ==
    (Expanded \/ Deduplicated) =>
        /\ \A i, j \in DOMAIN ret.concepts :
              ret.concepts[i].title = ret.concepts[j].title => i = j
        /\ \A i, j \in DOMAIN ret.concepts :
              i < j => ret.concepts[i].depth <= ret.concepts[j].depth

\* expand_seeds with a repeated seed title whose merged list repeats titles and
\* whose result reaches depth 2.
C3_Witness ==
    /\ Expanded
    /\ call.seed_titles = <<"A", "A">>
    /\ Len(locals.merged) > Len(ret.concepts)
    /\ Len(ret.concepts) = 3
    /\ ret.concepts[3].depth = 2

\* C4: deduplication keeps, for every title of seeds ++ prerequisites ++ related,
\* exactly one entry: the first of its lowest-depth occurrences; in expand_seeds
\* that entry has the highest precedence (seed > prerequisite > related) among
\* the title's occurrences of that depth.
C4_LowestDepthFirstSeenWins ==
    (Expanded \/ Deduplicated) =>
        LET m == locals.merged
            d == locals.sorted_concepts
        IN /\ \A t \in {m[i].title : i \in DOMAIN m} :
                 Cardinality({k \in DOMAIN d : d[k].title = t}) = 1
           /\ Range(d) = Winners(m)
           /\ Expanded =>
                 \A k \in DOMAIN d : \A i \in Occurrences(m, d[k].title) :
                    Precedes(d[k], m[i])

\* A title that is a depth-1 prerequisite and a peer-related concept of the seeds:
\* the prerequisite entry, first in the concatenation, is the one kept.
C4_Witness ==
    /\ Expanded
    /\ \E i, j \in DOMAIN locals.merged :
          /\ i < j
          /\ locals.merged[i].title = locals.merged[j].title
          /\ locals.merged[i].depth = 1 /\ locals.merged[j].depth = 1
          /\ locals.merged[i].relation_to_seed = "prerequisite"
          /\ locals.merged[j].relation_to_seed \in PeerTags
          /\ locals.merged[i] \in Range(locals.sorted_concepts)

\* C5: when deduplication leaves more than max_concepts entries, expand_seeds
\* keeps exactly max_concepts of them, each of lower depth than every dropped
\* one or of equal depth and no lower precedence; otherwise it keeps them all.
C5_TruncationKeepsLowestDepth ==
    Expanded =>
        LET D == Winners(locals.merged)
            R == Range(ret.concepts)
        IN IF Cardinality(D) > call.max_concepts
           THEN /\ Len(ret.concepts) = call.max_concepts
                /\ Cardinality(R) = call.max_concepts
                /\ R \subseteq D
                /\ \A r \in R : \A x \in D \ R : Precedes(r, x)
           ELSE /\ R = D
                /\ Len(ret.concepts) = Cardinality(D)

\* A truncation that cuts inside depth 1: a prerequisite is kept, a peer-related
\* concept of the same depth is dropped.
C5_Witness ==
    /\ Expanded
    /\ Cardinality(Winners(locals.merged)) > call.max_concepts
    /\ \E r \in Range(ret.concepts) : r.depth = 1 /\ r.relation_to_seed = "prerequisite"
    /\ \E x \in Winners(locals.merged) \ Range(ret.concepts) :
          x.depth = 1 /\ x.relation_to_seed \in PeerTags

\* C6: truncation never drops a found seed or a depth-1 prerequisite while it
\* keeps a peer-related concept or a prerequisite of greater depth.
C6_NearConceptsPreserved ==
    Expanded =>
        \A x \in Winners(locals.merged) \ Range(ret.concepts) :
            (x.relation_to_seed = "seed" \/ (x.relation_to_seed = "prerequisite" /\ x.depth = 1))
                => \A r \in Range(ret.concepts) :
                      /\ r.relation_to_seed \notin PeerTags
                      /\ ~(r.relation_to_seed = "prerequisite" /\ r.depth > x.depth)

\* The budget is exceeded; the dropped concept is peer-related at depth 1 and
\* was first met as a depth-2 prerequisite, the kept one is a depth-1 prerequisite.
C6_Witness ==
    /\ Expanded
    /\ call.max_concepts = 2
    /\ Len(ret.concepts) = 2
    /\ ret.concepts[2].relation_to_seed = "prerequisite" /\ ret.concepts[2].depth = 1
    /\ \E x \in Winners(locals.merged) \ Range(ret.concepts) :
          /\ x.relation_to_seed \in PeerTags
          /\ \E i \in DOMAIN locals.merged :
                /\ locals.merged[i].title = x.title
                /\ locals.merged[i].relation_to_seed = "prerequisite"
                /\ locals.merged[i].depth = 2

\* C7 (as claimed): a second expand_seeds with identical arguments against the
\* unchanged graph returns the same Subgraph, in the same order, whatever
\* order the gateway returns the records in.
C7_SameOutputTwice ==
    (Expanded /\ call.times = 2) => ret = prev

\* The seed titles of the call that match a Concept node, in their order.
PresentSeeds == SelectSeq(call.seed_titles, LAMBDA t : t \in DOMAIN graph.nodes)

ConceptListsOf(runs) == {run.subgraph.concepts : run \in runs}

\* C9: with a seed title that matches no Concept, expand_seeds returns, its
\* concept list has no entry for that title, and the concept lists it can
\* return are those of the call without the unmatched titles.
C9_AbsentSeedDropped ==
    (Expanded /\ \E i \in DOMAIN call.seed_titles : call.seed_titles[i] \notin DOMAIN graph.nodes)
        => /\ \A i \in DOMAIN ret.concepts :
                 /\ ret.concepts[i].title \in DOMAIN graph.nodes
                 /\ ret.concepts[i].seed_concept \in DOMAIN graph.nodes
           /\ LET without ==
                    ConceptListsOf(ExpandSeedsRuns(graph, PresentSeeds, call.prereq_depth,
                        call.related_depth, call.max_concepts, call.max_examples_per_concept))
                  with ==
                    ConceptListsOf(ExpandSeedsRuns(graph, call.seed_titles, call.prereq_depth,
                        call.related_depth, call.max_concepts, call.max_examples_per_concept))
              IN ret.concepts \in without /\ without = with

\* An unmatched title ahead of a seed that has prerequisites two hops deep.
C9_Witness ==
    /\ Expanded
    /\ call.seed_titles = <<Absent, "A">>
    /\ Len(ret.concepts) = 3
    /\ ret.concepts[1].title = "A"
    /\ ret.concepts[3].depth = 2

\* C10: expand_seeds returns one chain per seed title, in seed order, each
\* ending with its seed; a seed no PREREQ_OF relationship enters (an unmatched
\* title included) gets the chain [seed].
C10_OneChainPerSeed ==
    Expanded =>
        /\ Len(ret.prereq_chain) = Len(call.seed_titles)
        /\ \A i \in DOMAIN call.seed_titles :
              LET chain == ret.prereq_chain[i]
                  seed == call.seed_titles[i]
              IN /\ Len(chain) >= 1
                 /\ chain[Len(chain)] = seed
                 /\ (~\E e \in graph.prereqOf : e[2] = seed) => chain = <<seed>>

\* Two seeds: an unmatched title with its singleton chain, then a seed with a
\* chain of two hops.
C10_Witness ==
    /\ Expanded
    /\ call.seed_titles = <<Absent, "A">>
    /\ call.prereq_depth = 2
    /\ ret.prereq_chain = <<<<Absent>>, <<"C", "B", "A">>>>

\* The PREREQ_OF paths of 1..depth relationships that end at seed: consecutive
\* relationships meet, and none is used twice.
Trails(E, seed, depth) ==
    {p \in SeqsUpTo(E, depth) :
        /\ Len(p) >= 1
        /\ p[Len(p)][2] = seed
        /\ \A i \in 1..(Len(p) - 1) : p[i][2] = p[i + 1][1]
        /\ Distinct(p)}

\* C11: the chain of a seed that a PREREQ_OF path of at most prereq_depth
\* hops enters is such a path: consecutive titles are joined prerequisite ->
\* dependent, the last title is the seed, it has at most prereq_depth + 1
\* titles, and no path into the seed within the bound has more hops.
C11_ChainIsLongestPath ==
    Expanded =>
        \A i \in DOMAIN call.seed_titles :
            LET seed == call.seed_titles[i]
                chain == ret.prereq_chain[i]
                trails == Trails(graph.prereqOf, seed, call.prereq_depth)
            IN trails # {} =>
                  /\ Len(chain) >= 2
                  /\ Len(chain) <= call.prereq_depth + 1
                  /\ chain[Len(chain)] = seed
                  /\ \A k \in 1..(Len(chain) - 1) : <<chain[k], chain[k + 1]>> \in graph.prereqOf
                  /\ [k \in 1..(Len(chain) - 1) |-> <<chain[k], chain[k + 1]>>] \in trails
                  /\ \A p \in trails : Len(p) <= Len(chain) - 1

\* A seed entered by a path of one hop and by a path of two hops: the chain is
\* the path of two hops.
C11_Witness ==
    /\ Expanded
    /\ call.seed_titles = <<"A">>
    /\ call.prereq_depth = 2
    /\ graph.prereqOf = {<<"B", "A">>, <<"C", "B">>}
    /\ ret.prereq_chain = <<<<"C", "B", "A">>>>

(***************************************************************************)
(* Claims about retrieve                                                   *)
(***************************************************************************)
Retrieved == call.op = "retrieve"

\* C8: when the vector search returns no match, retrieve returns the empty
\* RetrievalResult (no seeds, an empty Subgraph, an empty order) and issues no
\* query on the graph gateway.
C8_EmptySearchShortCircuits ==
    (Retrieved /\ locals.semantic_matches = <<>>) =>
        /\ ret.query = call.query
        /\ ret.semantic_matches = <<>>
        /\ ret.seed_concepts = <<>>
        /\ ret.subgraph.seed_concepts = <<>>
        /\ ret.subgraph.concepts = <<>>
        /\ ret.subgraph.resources = <<>>
        /\ ret.subgraph.examples = <<>>
        /\ ret.subgraph.prereq_chain = <<>>
        /\ ret.ordered_concepts = <<>>
        /\ queries = 0
    /\ pc = Idle
    /\ session = NoSession
    /\ crawler = NoCrawler
    /\ collection = Created(1)

\* The index ranks concepts of a graph that has relationships, but every score
\* is below min_semantic_score.
C8_Witness ==
    /\ Retrieved
    /\ Len(index) = 2
    /\ index[1].title \in Concepts
    /\ call.min_semantic_score = Some(DefaultMinScore)
    /\ graph.prereqOf # {}
    /\ locals.semantic_matches = <<>>
    /\ ret.ordered_concepts = <<>>

\* <<title, depth>> of each concept of a list.
TitleDepths(concepts) == [i \in DOMAIN concepts |-> <<concepts[i].title, concepts[i].depth>>]

\* C13: with the single seed C, prereq_depth 2 and the PREREQ_OF relationships
\* B->C and A->B (Gradient Descent, Derivatives, Calculus), the retrieval
\* yields the concepts C (depth 0), B (depth 1), A (depth 2) in that order, the
\* chain [A, B, C] and the order [A, B, C].
C13_ChainScenario ==
    (/\ Retrieved
     /\ graph.prereqOf = {<<"B", "C">>, <<"A", "B">>}
     /\ ret.seed_concepts = <<"C">>
     /\ call.prereq_depth = 2
     /\ call.max_concepts >= 3)
        => /\ TitleDepths(ret.subgraph.concepts) = <<<<"C", 0>>, <<"B", 1>>, <<"A", 2>>>>
           /\ ret.subgraph.prereq_chain = <<<<"A", "B", "C">>>>
           /\ ret.ordered_concepts = <<"A", "B", "C">>

\* The scenario, reached through a search whose only match is C.
C13_Witness ==
    /\ Retrieved
    /\ graph.prereqOf = {<<"B", "C">>, <<"A", "B">>}
    /\ graph.peer = {}
    /\ TitlesOf(locals.semantic_matches) = <<"C">>
    /\ ret.seed_concepts = <<"C">>
    /\ call.prereq_depth = 2
    /\ call.max_concepts >= 3
    /\ Len(ret.subgraph.concepts) = 3
    /\ ret.ordered_concepts = <<"A", "B", "C">>

\* C14: when search returns matches, retrieve passes their titles, in the
\* order returned (non-increasing score), to expand_seeds, and returns the
\* query and the match list as they were, those titles as seed_concepts, a
\* Subgraph expand_seeds returns for them, and an order get_topological_order
\* returns for the concepts of that Subgraph; it issues the graph queries of
\* one expansion and one ordering.
C14_MatchesSeedExpansion ==
    (Retrieved /\ locals.semantic_matches # <<>>) =>
        LET matches == locals.semantic_matches
            seeds == TitlesOf(matches)
            titles == TitlesOf(ret.subgraph.concepts)
        IN /\ \A i, j \in DOMAIN matches : i < j => matches[i].score >= matches[j].score
           /\ ret.query = call.query
           /\ ret.semantic_matches = matches
           /\ ret.seed_concepts = seeds
           /\ ret.subgraph.seed_concepts = seeds
           /\ ret.subgraph \in
                 {run.subgraph : run \in ExpandSeedsRuns(graph, seeds, call.prereq_depth,
                     call.related_depth, call.max_concepts, call.max_examples_per_concept)}
           /\ ret.ordered_concepts \in
                 {TopologicalOrder(titles, edges) :
                     edges \in Orderings(InternalEdges(graph, titles))}
           /\ queries = ExpandSeedsQueries(seeds) + 1

\* Two matches, B ahead of A, expanded to three concepts whose order starts
\* with neither seed.
C14_Witness ==
    /\ Retrieved
    /\ Len(locals.semantic_matches) = 2
    /\ locals.semantic_matches[1].score > locals.semantic_matches[2].score
    /\ ret.seed_concepts = <<"B", "A">>
    /\ Len(ret.subgraph.concepts) = 3
    /\ ret.ordered_concepts = <<"C", "A", "B">>

\* A property as the claim wants it returned: the default when it is missing.
Defaulted(v, d) == IF v = NULL THEN d ELSE v

\* C19 (as claimed): expand_seeds returns, and in every concept, resource and
\* example it returns a missing difficulty or type is "unknown" and a missing
\* definition, example text or example source URL is the empty string.
C19_MissingPropertiesDefaulted ==
    Expanded =>
        /\ \A i \in DOMAIN ret.concepts :
              LET c == ret.concepts[i]
              IN /\ c.definition = Defaulted(graph.nodes[c.title].definition, "")
                 /\ c.difficulty = Defaulted(graph.nodes[c.title].difficulty, "unknown")
        /\ \A i \in DOMAIN ret.resources :
              LET r == ret.resources[i]
              IN r.resource_type = Defaulted(graph.resourceType[r.url], "unknown")
        /\ \A i \in DOMAIN ret.examples :
              LET x == ret.examples[i]
              IN \E e \in graph.exemplifies :
                    /\ e.concept = x.concept
                    /\ x.text = Defaulted(e.text, "")
                    /\ x.example_type = Defaulted(e.example_type, "unknown")
                    /\ x.source_url = Defaulted(e.source_url, "")

RetrievedExplicit == call.op = "retrieve_with_explicit_concepts"

\* C15 (as claimed): the seed list of retrieve_with_explicit_concepts is the
\* explicit seeds in their order, followed by the match titles, in match order,
\* that the list does not hold yet; no match title occurs in the seed list
\* twice and no appended title equals an explicit seed; expansion, ordering
\* and assembly are those of retrieve.
C15_ExplicitThenNewSemantic ==
    RetrievedExplicit =>
        LET explicit == call.explicit_concepts
            matches == TitlesOf(locals.semantic_matches)
            seeds == ret.seed_concepts
            appended == SubSeq(seeds, Len(explicit) + 1, Len(seeds))
            titles == TitlesOf(ret.subgraph.concepts)
        IN /\ Len(seeds) >= Len(explicit)
           /\ SubSeq(seeds, 1, Len(explicit)) = explicit
           /\ appended = SelectSeq(matches, LAMBDA t : ~Contains(explicit, t))
           /\ \A t \in Range(matches) : Count(seeds, t) <= 1
           /\ \A i \in DOMAIN appended : ~Contains(explicit, appended[i])
           /\ ret.query = call.query
           /\ ret.semantic_matches = locals.semantic_matches
           /\ ret.subgraph.seed_concepts = seeds
           /\ ret.subgraph \in
                 {run.subgraph : run \in ExpandSeedsRuns(graph, seeds, call.prereq_depth,
                     call.related_depth, call.max_concepts, call.max_examples_per_concept)}
           /\ ret.ordered_concepts \in
                 {TopologicalOrder(titles, edges) :
                     edges \in Orderings(InternalEdges(graph, titles))}

(***************************************************************************)
(* Claims about ConceptEmbedder.search                                     *)
(***************************************************************************)
Searched == call.op = "search" /\ pc.search = "returned"

\* C20 (as claimed): search returns entries in non-increasing order of score,
\* at most top_k of them, none with a score below min_score whatever min_score
\* is passed (with None or 0 every ranked entry is returned), and leaves the
\* index as it was.
C20_SearchSortedBoundedFiltered ==
    Searched =>
        /\ \A i, j \in DOMAIN ret : i < j => ret[i].score >= ret[j].score
        /\ Len(ret) <= call.top_k
        /\ ~call.min_score.is_none =>
              \A i \in DOMAIN ret : ret[i].score * 10 >= call.min_score.value
        /\ ~Truthy(call.min_score) => Len(ret) = Len(Prefix(prev.found, call.top_k))
        /\ prev.left = prev.found

(***************************************************************************)
(* Claims about concurrent retrieve calls and failing gateways             *)
(***************************************************************************)
Ended(c) == pc[c] \in {"returned", "raised"}

FailedCalls(c) == {i \in DOMAIN locals[c].log : ~locals[c].log[i].ok}

GraphCalls(c) == {i \in DOMAIN locals[c].log : locals[c].log[i].op # "search"}

\* C16: when a call of the vector search gateway or of the graph gateway fails
\* during retrieve, retrieve ends with that failure and without a
\* RetrievalResult; the failed call was issued once and is the last gateway
\* call of the invocation, so neither expansion follows a failed search nor
\* ordering a failed expansion.
C16_FailureSurfaced ==
    \A c \in Calls :
        LET log == locals[c].log
        IN FailedCalls(c) # {} =>
              /\ pc[c] = "raised"
              /\ FailedCalls(c) = {Len(log)}
              /\ ret[c] = Raised(log[Len(log)].op)
              /\ log[Len(log)].op = "search" => queries[c] = 0
              /\ log[Len(log)].op # "get_topological_order" =>
                    \A i \in DOMAIN log : log[i].op # "get_topological_order"
              /\ queries[c] = Cardinality(GraphCalls(c))

\* A call whose expansion failed at the prerequisite chain of its second
\* seed, after five graph queries.
C16_Witness ==
    /\ pc[1] = "raised"
    /\ ret[1] = Raised("_get_prereq_chains")
    /\ Len(locals[1].seed_concepts) = 2
    /\ queries[1] = 5
    /\ Len(locals[1].log) = 6

\* C17: when expand_seeds or get_topological_order has returned or raised, the
\* session it opened is closed; between the two operations no session is
\* open; and every graph query was issued on a session that was open.
C17_SessionsReleased ==
    \A c \in Calls :
        /\ Ended(c) => session[c] # "open"
        /\ pc[c] = "order" => session[c] = "closed"
        /\ \A i \in GraphCalls(c) : locals[c].log[i].session = "open"

\* One call raised inside the session of expand_seeds, the other inside the
\* session of get_topological_order; both sessions are closed.
C17_Witness ==
    /\ pc[1] = "raised" /\ ret[1] = Raised("_get_related_concepts")
    /\ pc[2] = "raised" /\ ret[2] = Raised("get_topological_order")
    /\ session[1] = "closed" /\ session[2] = "closed"

\* C18: whatever the interleaving of the gateway calls of concurrent retrieve
\* calls, a call that returns returns a RetrievalResult retrieve can return for
\* its arguments when run alone, having issued the graph queries of that run,
\* and the result was assembled from the locals of its own invocation.
C18_CallsDoNotInterfere ==
    \A c \in Calls :
        pc[c] = "returned" =>
            /\ \E run \in RetrieveRuns(graph, index, call[c]) :
                  /\ ret[c] = run.result
                  /\ queries[c] = run.queries
            /\ locals[c].owner = c
            /\ locals[c].semantic_matches = ret[c].semantic_matches
            /\ TitlesOf(locals[c].concepts) = TitlesOf(ret[c].subgraph.concepts)

\* Call 1 has returned its result for one seed while call 2, retrieving for
\* two seeds, is inside its session.
C18_Witness ==
    /\ pc[1] = "returned"
    /\ ret[1].seed_concepts = <<"A">>
    /\ Len(ret[1].ordered_concepts) = 3
    /\ pc[2] = "chains"
    /\ session[2] = "open"
    /\ locals[2].seed_concepts = <<"A", "B">>
    /\ queries[2] = 4

(***************************************************************************)
(* Claims about the tags of the expanded concepts                          *)
(***************************************************************************)
\* There is a walk of exactly k relationships of E from a to b.
RECURSIVE Walk(_, _, _, _)
Walk(E, a, b, k) ==
    IF k = 0 THEN a = b
    ELSE \E e \in E : e[1] = a /\ Walk(E, e[2], b, k - 1)

\* The hop counts, within the bound, at which p reaches s going along PREREQ_OF.
HopCounts(p, s) == {k \in 1..call.prereq_depth : Walk(graph.prereqOf, p, s, k)}

\* The entries _get_prerequisites contributed to the merged list for (p, s).
PrerequisiteEntries(p, s) ==
    {i \in DOMAIN locals.merged :
        /\ locals.merged[i].relation_to_seed = "prerequisite"
        /\ locals.merged[i].title = p
        /\ locals.merged[i].seed_concept = s}

\* C21: for every seed S that is a concept and every concept P, the merged
\* list holds one prerequisite entry for (P, S) when P reaches S over at most
\* prereq_depth PREREQ_OF hops, with depth the least such hop count, and none
\* when it does not; every prerequisite entry is one of these.
C21_PrerequisiteAtMinimumDepth ==
    Expanded =>
        /\ \A s \in Range(call.seed_titles) \cap Concepts : \A p \in Concepts :
              IF HopCounts(p, s) = {} THEN PrerequisiteEntries(p, s) = {}
              ELSE /\ Cardinality(PrerequisiteEntries(p, s)) = 1
                   /\ \A i \in PrerequisiteEntries(p, s) :
                         locals.merged[i].depth = Min(HopCounts(p, s))
        /\ \A i \in DOMAIN locals.merged :
              locals.merged[i].relation_to_seed = "prerequisite" =>
                 /\ locals.merged[i].seed_concept \in Range(call.seed_titles) \cap Concepts
                 /\ locals.merged[i].title \in Concepts

\* B reaches the seed A in one hop and, around its self-loop, in two: the
\* entry carries depth 1.
C21_Witness ==
    /\ Expanded
    /\ call.prereq_depth = 2
    /\ call.seed_titles = <<"A">>
    /\ graph.prereqOf = {<<"B", "A">>, <<"B", "B">>}
    /\ HopCounts("B", "A") = {1, 2}
    /\ \E i \in PrerequisiteEntries("B", "A") : locals.merged[i].depth = 1

\* The peer relationships that touch node n.
Touching(n) == {e \in graph.peer : e[1] = n \/ e[3] = n}

\* The nodes at which a path can end that starts at node `at`, takes at most
\* `hops` further relationships and none of `used` (one hop at least when
\* `must` holds).
RECURSIVE EndsOfPeerPaths(_, _, _, _)
EndsOfPeerPaths(at, used, hops, must) ==
    (IF must THEN {} ELSE {at}) \cup
    (IF hops = 0 THEN {}
     ELSE UNION {EndsOfPeerPaths(IF e[1] = at THEN e[3] ELSE e[1], used \cup {e},
                                 hops - 1, FALSE) : e \in Touching(at) \ used})

\* The concepts a seed reaches within related_depth hops on a path whose first
\* relationship has the given type.
ReachedOver(seed, type) ==
    UNION {EndsOfPeerPaths(IF e[1] = seed THEN e[3] ELSE e[1], {e},
                           call.related_depth - 1, FALSE) :
              e \in {x \in Touching(seed) : x[2] = type}} \ {seed}

\* The entries _get_related_concepts contributed to the merged list.
RelatedEntries == {i \in DOMAIN locals.merged : locals.merged[i].relation_to_seed \in PeerTags}

\* C22: every concept other than the seed that a seed reaches over peer
\* relationships, in either direction and within related_depth hops, has one
\* entry per type of the first relationship of such a path, tagged with the
\* lower-cased name of that type and depth 1; the merged list holds no other
\* related entry, and none whose title is its own seed.
C22_RelatedTaggedAtDepthOne ==
    Expanded =>
        /\ \A i \in RelatedEntries :
              LET c == locals.merged[i]
              IN /\ c.depth = 1
                 /\ c.title # c.seed_concept
                 /\ c.seed_concept \in Range(call.seed_titles) \cap Concepts
                 /\ \E type \in PeerTypes :
                       /\ Lower(type) = c.relation_to_seed
                       /\ c.title \in ReachedOver(c.seed_concept, type)
        /\ \A s \in Range(call.seed_titles) \cap Concepts : \A type \in PeerTypes :
              \A t \in ReachedOver(s, type) :
                 Cardinality({i \in RelatedEntries :
                                 /\ locals.merged[i].title = t
                                 /\ locals.merged[i].seed_concept = s
                                 /\ locals.merged[i].relation_to_seed = Lower(type)}) = 1

\* With related_depth 2 the seed A reaches C over A-SIBLING-B-IS_A-C: the
\* entry of C is tagged with the type of the first relationship, at depth 1.
C22_Witness ==
    /\ Expanded
    /\ call.related_depth = 2
    /\ call.seed_titles = <<"A">>
    /\ graph.peer = {<<"A", "SIBLING", "B">>, <<"B", "IS_A", "C">>}
    /\ {<<locals.merged[i].title, locals.merged[i].relation_to_seed, locals.merged[i].depth>> :
           i \in RelatedEntries} = {<<"B", "sibling", 1>>, <<"C", "sibling", 1>>}

(***************************************************************************)
(* Claims about the resources and examples of a Subgraph                   *)
(***************************************************************************)
\* The titles of the concepts expand_seeds returned.
FinalTitles == Range(TitlesOf(ret.concepts))

\* The concepts dropped by the truncation to max_concepts.
DroppedTitles == Range(TitlesOf(locals.sorted_concepts)) \ FinalTitles

\* C23: the resources of a returned Subgraph have different URLs, each explains
\* a concept of the returned concept list, a resource that explains one is
\* returned, and concepts_explained lists, once each, exactly the returned
\* concepts the resource explains.
C23_ResourcesOfFinalConcepts ==
    Expanded =>
        /\ \A i, j \in DOMAIN ret.resources :
              ret.resources[i].url = ret.resources[j].url => i = j
        /\ \A i \in DOMAIN ret.resources :
              LET r == ret.resources[i]
              IN /\ Range(r.concepts_explained) =
                       {c \in FinalTitles : <<r.url, c>> \in graph.explains}
                 /\ Range(r.concepts_explained) # {}
                 /\ Distinct(r.concepts_explained)
        /\ {ret.resources[i].url : i \in DOMAIN ret.resources} =
              {e[1] : e \in {x \in graph.explains : x[2] \in FinalTitles}}

\* The prerequisite B of the seed A is cut by max_concepts = 1; u1 explains
\* both and is returned as explaining A alone, u2 as explaining A.
C23_Witness ==
    /\ Expanded
    /\ call.seed_titles = <<"A">>
    /\ call.max_concepts = 1
    /\ graph.explains = ExplainsEdges
    /\ DroppedTitles = {"B"}
    /\ Len(ret.resources) = 2
    /\ \A i \in DOMAIN ret.resources : ret.resources[i].concepts_explained = <<"A">>

\* The Example nodes that exemplify concept c.
ExamplesOf(c) == {e \in graph.exemplifies : e.concept = c}

\* The position of an example's type in ascending order (a missing type last).
TypeRank(e) == IndexOf(ExampleTypeOrder, e.example_type)

\* The record returned for Example node e, with its text as stored.
ReturnedFor(e) ==
    [text |-> e.text, example_type |-> Defaulted(e.example_type, "unknown"),
     concept |-> e.concept, source_url |-> Defaulted(e.source_url, "")]

\* C24: every returned example belongs to a returned concept; of each returned
\* concept the Subgraph holds all its examples or, when there are more than
\* max_examples_per_concept, that many of them, none of a type that comes
\* after the type of one left out in ascending order of example_type.
C24_ExamplesCappedPerConcept ==
    Expanded =>
        /\ \A i \in DOMAIN ret.examples : ret.examples[i].concept \in FinalTitles
        /\ \A c \in FinalTitles :
              LET returned == {i \in DOMAIN ret.examples : ret.examples[i].concept = c}
                  cap == call.max_examples_per_concept
              IN /\ Cardinality(returned) <= cap
                 /\ \E kept \in SUBSET ExamplesOf(c) :
                       /\ Cardinality(kept) = Cardinality(returned)
                       /\ Cardinality(kept) =
                             IF Cardinality(ExamplesOf(c)) > cap THEN cap
                             ELSE Cardinality(ExamplesOf(c))
                       /\ {ret.examples[i] : i \in returned} = {ReturnedFor(e) : e \in kept}
                       /\ \A x \in kept : \A y \in ExamplesOf(c) \ kept :
                             TypeRank(x) <= TypeRank(y)

\* A has four examples and the cap is two: the examples of type code and
\* math are returned, the one of type unknown and the one without a type are
\* not; the example of B, a
\* concept cut by max_concepts = 1, is not returned either.
C24_Witness ==
    /\ Expanded
    /\ call.seed_titles = <<"A">>
    /\ call.max_concepts = 1
    /\ call.max_examples_per_concept = 2
    /\ graph.exemplifies = Examples
    /\ DroppedTitles = {"B"}
    /\ Len(ret.examples) = 2
    /\ {ret.examples[i].example_type : i \in DOMAIN ret.examples} = {"code", "math"}

(***************************************************************************)
(* Claims about the queue of get_topological_order                         *)
(***************************************************************************)
\* The internal edges that end at title t.
EdgesInto(t) == {e \in InternalEdges(graph, call.titles) : e[2] = t}

\* The titles without an internal prerequisite, in input order.
InitiallyReady == SelectSeq(call.titles, LAMBDA t : EdgesInto(t) = {})

\* How often the in-degree of t was decremented by the first k titles placed.
Decrements(t, k) ==
    Cardinality({i \in 1..k : <<locals.placed[i], t>> \in InternalEdges(graph, call.titles)})

\* The step of the loop at which t became ready: the first at which its
\* in-degree had been decremented to 0.
ReadyStep(t) ==
    Min({k \in DOMAIN locals.placed : Decrements(t, k) >= Cardinality(EdgesInto(t))})

\* The position, among the edge records, of the edge that made t ready.
ReadyEdge(t) == IndexOf(locals.edges, <<locals.placed[ReadyStep(t)], t>>)

\* C25: the output begins with the titles of internal in-degree 0 in input
\* order; every title the loop places after them has a prerequisite among
\* the titles and became ready at some step of the loop; and of two of them
\* the one emitted first became ready at an earlier step, or at the same step
\* by an earlier edge record.
C25_ReadyFirstInFirstOut ==
    Ordered =>
        LET first == Len(InitiallyReady)
            later == (first + 1)..Len(locals.placed)
        IN /\ first <= Len(locals.placed)
           /\ SubSeq(ret, 1, first) = InitiallyReady
           /\ SubSeq(ret, 1, Len(locals.placed)) = locals.placed
           /\ \A i \in later :
                 /\ EdgesInto(locals.placed[i]) # {}
                 /\ ReadyStep(locals.placed[i]) < i
           /\ \A i, j \in later :
                 i < j =>
                    \/ ReadyStep(locals.placed[i]) < ReadyStep(locals.placed[j])
                    \/ /\ ReadyStep(locals.placed[i]) = ReadyStep(locals.placed[j])
                       /\ ReadyEdge(locals.placed[i]) < ReadyEdge(locals.placed[j])

\* B has no prerequisite and follows C and A in the input; C becomes ready
\* when B is placed, A when C is: the output is B, C, A.
C25_Witness ==
    /\ Ordered
    /\ call.titles = <<"C", "A", "B">>
    /\ locals.edges = <<<<"C", "A">>, <<"B", "C">>>>
    /\ InitiallyReady = <<"B">>
    /\ ReadyStep("C") = 1 /\ ReadyStep("A") = 2
    /\ ret = <<"B", "C", "A">>

\* C26 (as claimed): for every input list, the titles placed by Kahn's loop
\* come before the titles the fallback appended, and every internal edge
\* a->b whose dependent b the loop placed has a before b in the output.
C26_EdgesIntoPlacedRespected ==
    Ordered =>
        /\ Len(ret) >= Len(locals.placed)
        /\ SubSeq(ret, 1, Len(locals.placed)) = locals.placed
        /\ \A i \in (Len(locals.placed) + 1)..Len(ret) : ~Contains(locals.placed, ret[i])
        /\ \A e \in InternalEdges(graph, call.titles) :
              Contains(locals.placed, e[2]) =>
                 /\ Contains(ret, e[1])
                 /\ IndexOf(ret, e[1]) < IndexOf(ret, e[2])

\* The same on the lists of distinct titles only, where it holds.
EdgesIntoPlacedRespectedOnSets ==
    (Ordered /\ Distinct(call.titles)) => C26_EdgesIntoPlacedRespected

(***************************************************************************)
(* Claims about the tags of a returned Subgraph                            *)
(***************************************************************************)
\* C27: in the concepts of a returned Subgraph an entry has depth 0 exactly
\* when it is tagged seed, and its seed_concept is then its own title; an
\* entry tagged prerequisite has a depth from 1 to prereq_depth; an entry
\* tagged with a peer relation has depth 1; there is no other tag; and every
\* seed_concept is one of the seed titles passed in.
C27_TagsConsistent ==
    Expanded =>
        \A i \in DOMAIN ret.concepts :
            LET c == ret.concepts[i]
            IN /\ c.depth = 0 <=> c.relation_to_seed = "seed"
               /\ c.relation_to_seed = "seed" => c.seed_concept = c.title
               /\ c.relation_to_seed = "prerequisite" =>
                     (1 <= c.depth /\ c.depth <= call.prereq_depth)
               /\ c.relation_to_seed \in PeerTags => c.depth = 1
               /\ c.relation_to_seed \in {"seed", "prerequisite"} \cup PeerTags
               /\ c.seed_concept \in Range(call.seed_titles)

\* A Subgraph with an entry of each kind: the seed, a prerequisite at the
\* bound of prereq_depth = 1 (its self-loop makes a two-hop path as well), and
\* a concept related by a peer relationship.
C27_Witness ==
    /\ Expanded
    /\ call.prereq_depth = 1
    /\ Len(ret.concepts) = 3
    /\ ret.concepts[1].relation_to_seed = "seed"
    /\ \E i \in DOMAIN ret.concepts :
          ret.concepts[i].relation_to_seed = "prerequisite" /\ ret.concepts[i].depth = 1
    /\ \E i \in DOMAIN ret.concepts : ret.concepts[i].relation_to_seed \in PeerTags
    /\ \E e \in graph.prereqOf : e[2] = ret.concepts[1].title /\ <<e[1], e[1]>> \in graph.prereqOf

(***************************************************************************)
(* Claims about every RetrievalResult                                      *)
(***************************************************************************)
\* C28: in the RetrievalResult of retrieve and of
\* retrieve_with_explicit_concepts, ordered_concepts has the length of
\* subgraph.concepts and holds each of their titles once, and seed_concepts is
\* the seed_concepts of the Subgraph.
C28_OrderIsPermutationOfSubgraph ==
    (Retrieved \/ RetrievedExplicit) =>
        /\ Len(ret.ordered_concepts) = Len(ret.subgraph.concepts)
        /\ \A t \in Titles :
              Count(ret.ordered_concepts, t) = Count(TitlesOf(ret.subgraph.concepts), t)
        /\ Distinct(ret.ordered_concepts)
        /\ ret.seed_concepts = ret.subgraph.seed_concepts

\* retrieve_with_explicit_concepts with an explicit title given twice and a
\* further title from the search, on the graph with the PREREQ_OF cycle
\* between A and B: three concepts, ordered otherwise than the Subgraph lists
\* them.
C28_Witness ==
    /\ RetrievedExplicit
    /\ call.explicit_concepts = <<"B", "B">>
    /\ ret.seed_concepts = <<"B", "B", "A">>
    /\ Len(ret.subgraph.concepts) = 3
    /\ ret.ordered_concepts # TitlesOf(ret.subgraph.concepts)

(***************************************************************************)
(* Claims about the Crawler                                                *)
(***************************************************************************)
\* The responses the _fetch_page call has handled, but for the last of them.
EarlierResponses == SubSeq(crawler.fetch.responses, 1, Len(crawler.fetch.responses) - 1)

LastResponse == crawler.fetch.responses[Len(crawler.fetch.responses)]

\* What the claim says of the _fetch_page call: at most max_retries + 1
\* attempts; every attempt but the last met a timeout or a status other than
\* 200 and 404; HTML is returned exactly on a 200, with no failure recorded;
\* None is returned with exactly one failure recorded, on a 404 or a
\* non-timeout request exception at once, or on a timeout or another status
\* at attempt max_retries + 1; no failure is recorded but by the pass that
\* returns None.
FetchAsClaimed ==
    LET f == crawler.fetch
    IN /\ f.attempts <= crawler.max_retries + 1
       /\ f.attempts = Len(f.responses)
       /\ \A i \in DOMAIN EarlierResponses : EarlierResponses[i] \in {"500", "timeout"}
       /\ f.result = "html" => (LastResponse = "200" /\ f.records = 0)
       /\ f.result \in {"none", "recorded"} =>
             /\ f.records = 1
             /\ \/ LastResponse \in {"404", "request_exception"}
                \/ /\ LastResponse \in {"500", "timeout"}
                   /\ f.attempts = crawler.max_retries + 1
       /\ f.result = "responded" => f.records = 0
       /\ f.result = "pending" =>
             /\ f.records = 0
             /\ \A i \in DOMAIN f.responses : f.responses[i] \in {"500", "timeout"}

\* Once a URL has been handed to _process_page, _fetch_page has been called.
Fetching == crawler.pc # "new" /\ crawler.fetch.url # ""

\* C30: whatever max_retries is, _fetch_page makes at most max_retries + 1
\* attempts, retries only a timeout or a status other than 200 and 404, and
\* has recorded exactly one failure whenever it returns None and none when
\* it returns HTML.
C30_FetchRetriesAndRecords == Fetching => FetchAsClaimed

\* With max_retries >= 0 the call is as claimed; with a negative max_retries
\* it makes no attempt and returns None with no failure recorded.
FetchAsClaimedFromZero ==
    Fetching =>
        /\ crawler.max_retries >= 0 =>
              /\ FetchAsClaimed
              /\ crawler.fetch.result = "pending" =>
                    crawler.fetch.attempts <= crawler.max_retries
        /\ crawler.max_retries < 0 =>
              /\ crawler.fetch.attempts = 0
              /\ crawler.fetch.records = 0
              /\ crawler.fetch.result \in {"pending", "none"}
              /\ crawler.failures[crawler.fetch.url] = 0

\* What holds of every state of a crawl run: no URL has been handed to
\* _process_page twice, the queue holds normalized URLs of internal pages,
\* a URL whose fetch failed has been visited, and a run that was not
\* interrupted nor left by an exception has ended its loop with its queue
\* empty.
CrawlOnce ==
    crawler.pc # "new" =>
        /\ \A url \in CrawlPages : crawler.processed[url] <= 1
        /\ Range(crawler.queue) \subseteq CrawlPages
        /\ crawler.failed \subseteq crawler.visited
        /\ \A url \in CrawlPages : crawler.processed[url] = 1 => url \in crawler.visited
        /\ (crawler.pc \in {"summary", "done"} /\ ~crawler.interrupted /\ ~crawler.raising)
              => crawler.queue = <<>>

\* What holds of every step of a crawl run: a URL whose fetch failed is not
\* queued again nor handed to _process_page again, and the loop that finds
\* its queue empty ends unless it is interrupted.
CrawlStep ==
    /\ \A url \in crawler.failed :
          /\ Count(crawler'.queue, url) <= Count(crawler.queue, url)
          /\ crawler'.processed[url] = crawler.processed[url]
    /\ (crawler.pc = "loop" /\ crawler.queue = <<>>) => crawler'.pc = "summary"
    /\ (crawler.pc = "loop" /\ crawler'.pc = "summary" /\ ~crawler'.interrupted) =>
          crawler.queue = <<>>
    /\ crawler.pc \in {"summary", "done", "raised"} =>
          /\ crawler'.queue = crawler.queue
          /\ crawler'.processed = crawler.processed

\* C29: during one crawl run each normalized URL is handed to _process_page
\* at most once, however often pages queue it; the loop ends when it finds
\* the queue empty; and a URL whose fetch failed is never queued again.
C29_EachUrlProcessedOnce == [](CrawlOnce) /\ [][CrawlStep]_vars

\* The page p2 was queued by p0 and, before it was fetched, again by p1; its
\* fetch failed, and the second entry for it now heads the queue, to be
\* skipped.
C29_Witness ==
    /\ crawler.pc = "loop"
    /\ crawler.queue = <<"p2">>
    /\ crawler.visited = {"p0", "p1", "p2"}
    /\ crawler.failed = {"p2"}
    /\ crawler.processed["p2"] = 1
    /\ crawler.pages_processed = 2

====
